---- MODULE Spec2Model ----
(***************************************************************************)
(* Model of the event-stream reconciliation core of aviation-demos-02:     *)
(*   - the zustand store of frontend/store/aviation-store.ts (ingestion    *)
(*     buffer, state reducer, staleness monitor), as pure operators over a *)
(*     store record, and                                                   *)
(*   - the useSSE hook of frontend/hooks/use-sse.ts (stream connector).    *)
(*                                                                         *)
(* Conventions.  Times are milliseconds.  A timestamp string is modelled   *)
(* by the number Date.parse gives for it; NoTs stands for an absent/empty  *)
(* timestamp (falsy in the code) and BadTs for a non-empty string that     *)
(* Date.parse maps to NaN.  A payload is a record holding only the keys    *)
(* that are present with the expected type; a missing, mistyped or NaN     *)
(* field takes the fallback branch of payloadString / payloadNumber and is *)
(* modelled by the key being absent.  Absent strings are "".               *)
(* Display-only text of an agent (name, icon, color, reason, objective,    *)
(* lastAction, completionReason, previews) is not modelled.                *)
(***************************************************************************)
EXTENDS Integers, Sequences, FiniteSets, TLC

VARIABLES store, now, hook, net, hist

vars == <<store, now, hook, net, hist>>

(***************************************************************************)
(* Generic helpers                                                         *)
(***************************************************************************)
Range(s) == {s[i] : i \in 1..Len(s)}

Max(a, b) == IF a >= b THEN a ELSE b

Min(a, b) == IF a <= b THEN a ELSE b

\* JavaScript a || b on strings ("" is falsy).
OrStr(a, b) == IF a # "" THEN a ELSE b

\* A slice that keeps the oldest n elements instead (slice(0, n)).
SliceFirst(s, n) == IF Len(s) <= n THEN s ELSE SubSeq(s, 1, n)

\* A slice that keeps one element more than asked for.
SliceLastOneMore(s, n) ==
  IF Len(s) <= n + 1 THEN s ELSE SubSeq(s, Len(s) - n, Len(s))

\* Array.prototype.slice(-n): the last n elements.
SliceLast(s, n) == IF Len(s) <= n THEN s ELSE SubSeq(s, Len(s) - n + 1, Len(s))

\* Array.from(new Set(arr)): first occurrences, in order.
RECURSIVE Dedup(_)
Dedup(s) ==
  IF s = << >> THEN << >>
  ELSE LET init == Dedup(SubSeq(s, 1, Len(s) - 1))
           x == s[Len(s)]
       IN IF x \in Range(init) THEN init ELSE Append(init, x)

\* arr.filter((id) => id !== x)
Without(s, x) == SelectSeq(s, LAMBDA y : y # x)

\* {...obj, [k]: v}
Put(f, k, v) == [x \in (DOMAIN f) \cup {k} |-> IF x = k THEN v ELSE f[x]]

\* Math.round of num/den for den > 0 (halves round towards +infinity).
RoundDiv(num, den) == (2 * num + den) \div (2 * den)

(***************************************************************************)
(* Timestamps                                                              *)
(***************************************************************************)
NoTs == 0

BadTs == -1

\* Number.isFinite(Date.parse(ts))
ParsesOk(ts) == ts > 0

\* a || b on timestamps
OrTs(a, b) == IF a # NoTs THEN a ELSE b

(***************************************************************************)
(* Payload helpers (types/aviation.ts)                                     *)
(***************************************************************************)
Has(payload, key) == key \in DOMAIN payload

payloadString(payload, key, fallback) ==
  IF Has(payload, key) THEN payload[key] ELSE fallback

payloadNumber(payload, key, fallback) ==
  IF Has(payload, key) THEN payload[key] ELSE fallback

payloadArray(payload, key) ==
  IF Has(payload, key) THEN payload[key] ELSE << >>

NoPayload == [x \in {} |-> 0]

(***************************************************************************)
(* Event kinds                                                             *)
(***************************************************************************)
K_RUN_STARTED == "run_started"
K_RUN_COMPLETED == "run_completed"
K_RUN_FAILED == "run_failed"
K_SPAN_STARTED == "span.started"
K_SPAN_ENDED == "span.ended"
K_AGENT_ACTIVATED == "agent.activated"
K_AGENT_EXCLUDED == "agent.excluded"
K_AGENT_EVIDENCE == "agent.evidence"
K_AGENT_RECOMMENDATION == "agent.recommendation"
K_AGENT_STREAMING == "agent.streaming"
K_AGENT_OBJECTIVE == "agent.objective"
K_AGENT_PROGRESS == "agent.progress"
K_DATA_SOURCE_QUERY_START == "data_source.query_start"
K_DATA_SOURCE_QUERY_COMPLETE == "data_source.query_complete"
K_EXECUTOR_INVOKED == "executor.invoked"
K_EXECUTOR_COMPLETED == "executor.completed"
K_AGENT_COMPLETED == "agent.completed"
K_AGENT_COMPLETED_LEGACY == "agent_completed"
K_TOOL_CALLED == "tool.called"
K_TOOL_COMPLETED == "tool.completed"
K_TOOL_FAILED == "tool.failed"
K_TOOL_CALLED_LEGACY == "tool_called"
K_TOOL_COMPLETED_LEGACY == "tool_completed"
K_TOOL_FAILED_LEGACY == "tool_failed"
K_COORDINATOR_SCORING == "coordinator.scoring"
K_COORDINATOR_PLAN == "coordinator.plan"
K_RECOVERY_OPTION == "recovery.option"
K_HANDOVER == "handover"
K_ORCHESTRATOR_PLAN == "orchestrator.plan"
K_ORCHESTRATOR_DECISION == "orchestrator.decision"
K_HEARTBEAT == "heartbeat"
K_PROGRESS_UPDATE == "progress_update"
K_WORKFLOW_STATUS == "workflow.status"
K_STAGE_STARTED == "stage_started"
\* a kind outside EventKinds
K_UNKNOWN == "custom.unknown"

(***************************************************************************)
(* Envelopes                                                               *)
(***************************************************************************)
\* WorkflowEvent: ts and stream_id may be absent (NoTs, ""), sequence 0 is
\* "absent" for the code (falsy).
Env(kind, agent, ts, payload) ==
  [kind |-> kind, agent_name |-> agent, ts |-> ts, payload |-> payload,
   event_id |-> "", stream_id |-> "", sequence |-> 0]

WithId(e, eid, sid, seq) ==
  [e EXCEPT !.event_id = eid, !.stream_id = sid, !.sequence = seq]

(***************************************************************************)
(* Store defaults (aviation-store.ts)                                      *)
(***************************************************************************)
DATA_SOURCE_DEFAULTS ==
  [SQL |-> "Azure", KQL |-> "Fabric", GRAPH |-> "Fabric",
   VECTOR_OPS |-> "Azure", VECTOR_REG |-> "Azure", VECTOR_AIRPORT |-> "Azure",
   NOSQL |-> "Azure", FABRIC_SQL |-> "Fabric"]

createDefaultDataSources ==
  [key \in DOMAIN DATA_SOURCE_DEFAULTS |->
     [id |-> key, provider |-> DATA_SOURCE_DEFAULTS[key], queryCount |-> 0,
      totalResults |-> 0, avgLatencyMs |-> 0, isActive |-> FALSE,
      sparkline |-> << >>, lastAgentId |-> "", lastQueryTime |-> NoTs]]

\* A trace counter that counts an envelope twice.
incrementAgentTraceTwice(agent, ts) ==
  [agent EXCEPT !.traceCount = agent.traceCount + 2, !.lastTraceAt = ts]

incrementAgentTrace(agent, ts) ==
  [agent EXCEPT !.traceCount = agent.traceCount + 1, !.lastTraceAt = ts]

createDefaultRunProgress ==
  [status |-> "pending", overallPct |-> 0, agentsTotal |-> 0,
   agentsActivated |-> 0, agentsRunning |-> 0, agentsDone |-> 0,
   agentsErrored |-> 0, currentStep |-> <<"idle">>, eventRatePerMin |-> 0,
   isLive |-> FALSE, isStale |-> FALSE, lastEventKind |-> "",
   lastUpdateAt |-> NoTs, lastHeartbeatAt |-> NoTs]

isMeaningfulEvent(kind) == kind # K_HEARTBEAT

MAX_STORED_EVENTS == 2

STALE_AFTER_MS == 20000

RATE_WINDOW_MS == 60000

NoAgents == [x \in {} |-> 0]

\* The state the store is created with (create<AviationStore>).
InitialStore ==
  [currentRunId |-> "", events |-> << >>, isConnected |-> FALSE,
   lastEventId |-> "", runProgress |-> createDefaultRunProgress,
   activeAgentIds |-> << >>, completedAgentIds |-> << >>,
   failedAgentIds |-> << >>, lastMeaningfulEventAt |-> NoTs,
   lastHeartbeatAt |-> NoTs, eventRatePerMin |-> 0,
   noUpdateWarning |-> FALSE, scenario |-> "", agents |-> NoAgents,
   agentEdges |-> << >>, dataSources |-> createDefaultDataSources,
   recoveryPlan |-> << >>, recoveryOptions |-> << >>,
   bottomDrawerTab |-> "timeline", bottomDrawerOpen |-> TRUE]

setCurrentRunId(s, runId) ==
  [s EXCEPT !.currentRunId = runId,
            !.runProgress =
               IF runId # ""
               THEN [s.runProgress EXCEPT !.status = "running", !.isLive = TRUE,
                                          !.currentStep = <<"run_started">>]
               ELSE createDefaultRunProgress]

\* currentRun is only ever set by setCurrentRun, which nothing calls: the
\* guard "if (!state.currentRun) return" always returns.
updateRunFromEvent(s, e) == s

clearEvents(s) ==
  [s EXCEPT !.events = << >>, !.currentRunId = "", !.lastEventId = "",
            !.runProgress = createDefaultRunProgress,
            !.activeAgentIds = << >>, !.completedAgentIds = << >>,
            !.failedAgentIds = << >>, !.lastMeaningfulEventAt = NoTs,
            !.lastHeartbeatAt = NoTs, !.eventRatePerMin = 0,
            !.noUpdateWarning = FALSE, !.scenario = "", !.agents = NoAgents,
            !.agentEdges = << >>, !.dataSources = createDefaultDataSources,
            !.recoveryPlan = << >>, !.recoveryOptions = << >>]

\* A setConnected that leaves the stale flags alone on a disconnect.
setConnectedKeepsFlags(s, connected) ==
  [s EXCEPT !.isConnected = connected,
            !.runProgress = [s.runProgress EXCEPT !.isLive = connected]]

setConnected(s, connected) ==
  [s EXCEPT !.isConnected = connected,
            !.noUpdateWarning = IF connected THEN s.noUpdateWarning ELSE FALSE,
            !.runProgress =
               [s.runProgress EXCEPT
                  !.isLive = connected,
                  !.isStale = IF connected THEN s.runProgress.isStale ELSE FALSE]]

\* ts || new Date().toISOString()
noteHeartbeat(s, ts, t) ==
  LET heartbeatTs == OrTs(ts, t)
  IN [s EXCEPT !.lastHeartbeatAt = heartbeatTs,
               !.runProgress = [s.runProgress EXCEPT !.lastHeartbeatAt = heartbeatTs]]

\* A verdict that already fires at the threshold itself (>= instead of >).
StaleVerdictInclusive(s, t) ==
  LET lastMeaningfulMs ==
        IF s.lastMeaningfulEventAt # NoTs THEN s.lastMeaningfulEventAt ELSE 0
  IN /\ s.isConnected
     /\ ParsesOk(s.lastMeaningfulEventAt)
     /\ lastMeaningfulMs > 0
     /\ t - lastMeaningfulMs >= STALE_AFTER_MS

StaleVerdict(s, t) ==
  LET lastMeaningfulMs ==
        IF s.lastMeaningfulEventAt # NoTs THEN s.lastMeaningfulEventAt ELSE 0
  IN /\ s.isConnected
     /\ ParsesOk(s.lastMeaningfulEventAt)
     /\ lastMeaningfulMs > 0
     /\ t - lastMeaningfulMs > STALE_AFTER_MS

\* A poll that also zeroes the event rate it is displayed next to.
evaluateStalenessDropsRate(s, t) ==
  LET stale == StaleVerdict(s, t)
  IN [s EXCEPT !.noUpdateWarning = stale,
               !.eventRatePerMin = 0,
               !.runProgress = [s.runProgress EXCEPT !.isStale = stale,
                                                     !.eventRatePerMin = 0]]

\* A poll that raises the flag but never lowers it.
evaluateStalenessSticky(s, t) ==
  LET stale == s.runProgress.isStale \/ StaleVerdict(s, t)
  IN [s EXCEPT !.noUpdateWarning = stale,
               !.runProgress = [s.runProgress EXCEPT !.isStale = stale]]

evaluateStaleness(s, t) ==
  LET stale == StaleVerdict(s, t)
  IN [s EXCEPT !.noUpdateWarning = stale,
               !.runProgress = [s.runProgress EXCEPT !.isStale = stale]]

\* One roster entry of the solve response (AgentInfo).
AgentInfo(id, included) == [id |-> id, included |-> included]

\* A roster entry that ignores the supplied status.
NewAgentAlwaysIdle(id, status, included) ==
  [id |-> id, status |-> "idle", included |-> included, evidence |-> << >>,
   toolCalls |-> << >>, traceCount |-> 0, lastTraceAt |-> NoTs,
   percentComplete |-> 0, executionCount |-> 0, startedAt |-> NoTs,
   endedAt |-> NoTs, activeQuery |-> ""]

NewAgent(id, status, included) ==
  [id |-> id, status |-> status, included |-> included, evidence |-> << >>,
   toolCalls |-> << >>, traceCount |-> 0, lastTraceAt |-> NoTs,
   percentComplete |-> 0, executionCount |-> 0, startedAt |-> NoTs,
   endedAt |-> NoTs, activeQuery |-> ""]

initializeAgents(s, agentInfos, scenario) ==
  LET ids == {agentInfos[i].id : i \in 1..Len(agentInfos)}
      \* later roster entries with the same id overwrite earlier ones
      last(id) == CHOOSE i \in 1..Len(agentInfos) :
                    /\ agentInfos[i].id = id
                    /\ \A j \in 1..Len(agentInfos) : agentInfos[j].id = id => j <= i
      agents == [id \in ids |->
                   NewAgent(id,
                            IF agentInfos[last(id)].included THEN "idle" ELSE "excluded",
                            agentInfos[last(id)].included)]
      includedCount == Len(SelectSeq(agentInfos, LAMBDA a : a.included))
  IN [s EXCEPT !.agents = agents, !.scenario = scenario, !.agentEdges = << >>,
               !.activeAgentIds = << >>, !.completedAgentIds = << >>,
               !.failedAgentIds = << >>,
               !.runProgress =
                  [s.runProgress EXCEPT
                     !.status = "running", !.agentsTotal = includedCount,
                     !.agentsActivated = 0, !.agentsRunning = 0,
                     !.agentsDone = 0, !.agentsErrored = 0, !.overallPct = 0,
                     !.currentStep = <<"agents_initialized">>]]


(***************************************************************************)
(* processAgentEvent: the reducer, one operator per case of the switch.    *)
(* s is the store, e the envelope, t the value of Date.now().              *)
(***************************************************************************)
AgentIdOf(e) ==
  OrStr(payloadString(e.payload, "agentId", ""),
        OrStr(payloadString(e.payload, "executor_id", ""), e.agent_name))

ReportedRunPct(e) == payloadNumber(e.payload, "runProgressPct", -1)

ReportedCurrentStep(e) == payloadString(e.payload, "currentStep", "")

KnownAgent(s, id) == id # "" /\ id \in DOMAIN s.agents

\* The runProgress block shared by the cases: currentStep, overallPct,
\* lastEventKind, lastUpdateAt.
MergeProgress(s, e, step) ==
  [s.runProgress EXCEPT
     !.currentStep = IF ReportedCurrentStep(e) # "" THEN <<ReportedCurrentStep(e)>> ELSE step,
     !.overallPct = IF ReportedRunPct(e) >= 0 THEN ReportedRunPct(e) ELSE @,
     !.lastEventKind = e.kind,
     !.lastUpdateAt = e.ts]

\* ... activeAgentIds: Array.from(new Set([...activeAgentIds, agentId])),
\*     agentsRunning: its length
Activate(s, e, id, agent, step) ==
  LET active == Dedup(Append(s.activeAgentIds, id))
  IN [s EXCEPT !.agents = Put(s.agents, id, agent),
               !.activeAgentIds = active,
               !.runProgress = [MergeProgress(s, e, step) EXCEPT !.agentsRunning = Len(active)]]

\* ... activeAgentIds: activeAgentIds.filter((id) => id !== agentId)
Deactivate(s, e, id, agent, step) ==
  LET active == Without(s.activeAgentIds, id)
  IN [s EXCEPT !.agents = Put(s.agents, id, agent),
               !.activeAgentIds = active,
               !.runProgress = [MergeProgress(s, e, step) EXCEPT !.agentsRunning = Len(active)]]

OnAgentActivated(s, e, t) ==
  LET id == AgentIdOf(e)
      known == id \in DOMAIN s.agents
      base == IF known THEN s.agents[id] ELSE NewAgent(id, "idle", TRUE)
      agent == [incrementAgentTrace(base, e.ts) EXCEPT
                  !.status = "activated",
                  !.startedAt = OrTs(IF known THEN s.agents[id].startedAt ELSE NoTs, e.ts)]
      act == Activate(s, e, id, agent, <<"activated", id>>)
  IN IF id = "" THEN s
     ELSE [act EXCEPT !.runProgress.agentsActivated =
                         Max(s.runProgress.agentsActivated, Len(s.activeAgentIds) + 1)]

OnAgentExcluded(s, e, t) ==
  LET id == AgentIdOf(e)
  IN IF ~KnownAgent(s, id) THEN s
     ELSE Deactivate(s, e, id,
                     [incrementAgentTrace(s.agents[id], e.ts) EXCEPT !.status = "excluded"],
                     <<"excluded", id>>)

OnSpanStarted(s, e, t) ==
  LET id == AgentIdOf(e)
  IN IF ~KnownAgent(s, id) THEN s
     ELSE Activate(s, e, id,
                   [incrementAgentTrace(s.agents[id], e.ts) EXCEPT
                      !.status = "thinking",
                      !.startedAt = OrTs(s.agents[id].startedAt, e.ts),
                      !.percentComplete =
                         Max(s.agents[id].percentComplete,
                             payloadNumber(e.payload, "percentComplete", 10))],
                   <<"thinking", id>>)

OnAgentObjective(s, e, t) ==
  LET id == AgentIdOf(e)
      currentStep == payloadString(e.payload, "currentStep", "objective_set")
  IN IF ~KnownAgent(s, id) THEN s
     ELSE [s EXCEPT
             !.agents = Put(s.agents, id,
                            [incrementAgentTrace(s.agents[id], e.ts) EXCEPT
                               !.percentComplete =
                                  Max(s.agents[id].percentComplete,
                                      payloadNumber(e.payload, "percentComplete", 5))]),
             !.runProgress = MergeProgress(s, e, <<currentStep>>)]

OnAgentProgress(s, e, t) ==
  LET id == AgentIdOf(e)
      currentStep == payloadString(e.payload, "currentStep", "streaming")
  IN IF ~KnownAgent(s, id) THEN s
     ELSE Activate(s, e, id,
                   [incrementAgentTrace(s.agents[id], e.ts) EXCEPT
                      !.status = "thinking",
                      !.percentComplete =
                         payloadNumber(e.payload, "percentComplete",
                                       Min(s.agents[id].percentComplete + 6, 92))],
                   <<currentStep>>)

OnExecutorInvoked(s, e, t) ==
  LET id == AgentIdOf(e)
      currentStep == payloadString(e.payload, "currentStep", "executor_invoked")
  IN IF ~KnownAgent(s, id) THEN s
     ELSE Activate(s, e, id,
                   [incrementAgentTrace(s.agents[id], e.ts) EXCEPT
                      !.status = "thinking",
                      !.startedAt = OrTs(s.agents[id].startedAt, e.ts),
                      !.executionCount =
                         payloadNumber(e.payload, "executionCount",
                                       s.agents[id].executionCount + 1)],
                   <<currentStep>>)

OnExecutorCompleted(s, e, t) ==
  LET id == AgentIdOf(e)
      isFailure == payloadString(e.payload, "status", "completed") = "failed"
  IN IF ~KnownAgent(s, id) THEN s
     ELSE Deactivate(s, e, id,
                     [incrementAgentTrace(s.agents[id], e.ts) EXCEPT
                        !.status = IF isFailure THEN "error" ELSE "done",
                        !.endedAt = e.ts,
                        !.percentComplete = Max(s.agents[id].percentComplete, 95),
                        !.executionCount =
                           payloadNumber(e.payload, "executionCount",
                                         s.agents[id].executionCount)],
                     <<"executor_completed", id>>)


SPARKLINE_KEEP == 19

\* An optional number that is undefined (latencyMs?, resultCount?).
Undefined == -1

OnQueryStart(s, e, t) ==
  LET id == AgentIdOf(e)
      sourceType == payloadString(e.payload, "sourceType", "")
      sourceProvider == payloadString(e.payload, "sourceProvider", "")
      registered == sourceType # "" /\ sourceType \in DOMAIN s.dataSources
  IN IF ~KnownAgent(s, id) THEN s
     ELSE [s EXCEPT
             !.agents = Put(s.agents, id,
                            [incrementAgentTrace(s.agents[id], e.ts) EXCEPT
                               !.status = "querying",
                               !.activeQuery = sourceType,
                               !.percentComplete =
                                  Max(s.agents[id].percentComplete,
                                      payloadNumber(e.payload, "percentComplete", 20))]),
             !.dataSources =
                IF registered
                THEN [s.dataSources EXCEPT
                        ![sourceType] =
                           [@ EXCEPT !.isActive = TRUE, !.lastAgentId = id,
                                     !.provider =
                                        IF sourceProvider \in {"Fabric", "Azure"}
                                        THEN sourceProvider ELSE @]]
                ELSE s.dataSources,
             !.runProgress = MergeProgress(s, e, <<"query", sourceType>>)]

OnQueryComplete(s, e, t) ==
  LET id == AgentIdOf(e)
      sourceType == payloadString(e.payload, "sourceType", "")
      resultCount == payloadNumber(e.payload, "resultCount", 0)
      latencyMs == payloadNumber(e.payload, "latencyMs", 0)
      sourceProvider == payloadString(e.payload, "sourceProvider", "")
      registered == sourceType \in DOMAIN s.dataSources
      ds == s.dataSources[sourceType]
      newDs == [ds EXCEPT
                  !.queryCount = ds.queryCount + 1,
                  !.totalResults = ds.totalResults + resultCount,
                  !.avgLatencyMs =
                     RoundDiv(ds.avgLatencyMs * ds.queryCount + latencyMs,
                              ds.queryCount + 1),
                  !.isActive = FALSE,
                  !.lastQueryTime = e.ts,
                  !.lastAgentId = OrStr(id, ds.lastAgentId),
                  !.provider = IF sourceProvider \in {"Fabric", "Azure"}
                               THEN sourceProvider ELSE @,
                  !.sparkline = Append(SliceLast(ds.sparkline, SPARKLINE_KEEP), latencyMs)]
      agent == s.agents[id]
      newAgent == [incrementAgentTrace(agent, e.ts) EXCEPT
                     !.status = "thinking",
                     !.activeQuery = "",
                     !.percentComplete =
                        Max(agent.percentComplete,
                            payloadNumber(e.payload, "percentComplete", 55)),
                     !.evidence =
                        Append(agent.evidence,
                               [id |-> t, sourceType |-> sourceType,
                                resultCount |-> resultCount, timestamp |-> e.ts])]
  IN [s EXCEPT
        !.dataSources = IF registered THEN [s.dataSources EXCEPT ![sourceType] = newDs]
                        ELSE s.dataSources,
        !.agents = IF KnownAgent(s, id) THEN Put(s.agents, id, newAgent) ELSE s.agents,
        !.runProgress = MergeProgress(s, e, <<"query_complete", sourceType>>)]

\* payloadString(payload, "toolId", `tool-${Date.now()}`)
ToolCallId(payload, t) ==
  IF Has(payload, "toolId") THEN [given |-> payload.toolId, synth |-> 0]
  ELSE [given |-> "", synth |-> t]

ToolNameOf(e) == payloadString(e.payload, "toolName", "tool")

OnToolCalled(s, e, t) ==
  LET id == AgentIdOf(e)
  IN IF ~KnownAgent(s, id) THEN s
     ELSE [s EXCEPT
             !.agents = Put(s.agents, id,
                [incrementAgentTrace(s.agents[id], e.ts) EXCEPT
                   !.toolCalls =
                      Append(s.agents[id].toolCalls,
                             [id |-> ToolCallId(e.payload, t),
                              toolName |-> ToolNameOf(e),
                              dataSource |->
                                 payloadString(e.payload, "sourceType",
                                    payloadString(e.payload, "dataSource", "unknown")),
                              status |-> "running", startedAt |-> e.ts,
                              endedAt |-> NoTs, latencyMs |-> Undefined,
                              resultCount |-> Undefined])])]

\* A name lookup that takes the oldest running entry of that tool.
ToolTargetIndexOldest(existing, toolId, toolName) ==
  LET byId == {i \in 1..Len(existing) :
                 existing[i].id.synth = 0 /\ existing[i].id.given = toolId}
      byName == {i \in 1..Len(existing) :
                   existing[i].toolName = toolName /\ existing[i].status = "running"}
  IN IF toolId # ""
     THEN (IF byId = {} THEN 0 ELSE CHOOSE i \in byId : \A j \in byId : i <= j)
     ELSE (IF byName = {} THEN 0 ELSE CHOOSE i \in byName : \A j \in byName : i <= j)

\* The index the tool completed/failed case updates, 0 for "none" (-1 in the code).
ToolTargetIndex(existing, toolId, toolName) ==
  LET byId == {i \in 1..Len(existing) :
                 existing[i].id.synth = 0 /\ existing[i].id.given = toolId}
      byName == {i \in 1..Len(existing) :
                   existing[i].toolName = toolName /\ existing[i].status = "running"}
  IN IF toolId # ""
     THEN (IF byId = {} THEN 0 ELSE CHOOSE i \in byId : \A j \in byId : i <= j)
     ELSE (IF byName = {} THEN 0 ELSE CHOOSE i \in byName : \A j \in byName : i >= j)

OnToolFinished(s, e, t) ==
  LET id == AgentIdOf(e)
      toolId == payloadString(e.payload, "toolId", "")
      isFailure == e.kind \in {K_TOOL_FAILED, K_TOOL_FAILED_LEGACY}
      existing == s.agents[id].toolCalls
      targetIndex == ToolTargetIndex(existing, toolId, ToolNameOf(e))
      updatedCalls ==
        IF targetIndex >= 1
        THEN [existing EXCEPT
                ![targetIndex] =
                   [@ EXCEPT !.status = IF isFailure THEN "error" ELSE "done",
                             !.endedAt = e.ts,
                             !.latencyMs = payloadNumber(e.payload, "latencyMs", @),
                             !.resultCount = payloadNumber(e.payload, "resultCount", @)]]
        ELSE existing
  IN IF ~KnownAgent(s, id) THEN s
     ELSE [s EXCEPT
             !.agents = Put(s.agents, id,
                            [incrementAgentTrace(s.agents[id], e.ts) EXCEPT
                               !.toolCalls = updatedCalls])]

OnAgentEvidence(s, e, t) ==
  LET id == AgentIdOf(e)
  IN IF ~KnownAgent(s, id) THEN s
     ELSE [s EXCEPT
             !.agents = Put(s.agents, id,
                [incrementAgentTrace(s.agents[id], e.ts) EXCEPT
                   !.evidence =
                      Append(s.agents[id].evidence,
                             [id |-> t,
                              sourceType |-> payloadString(e.payload, "sourceType", "unknown"),
                              resultCount |-> payloadNumber(e.payload, "resultCount", 0),
                              timestamp |-> e.ts])]),
             !.runProgress = MergeProgress(s, e, <<"evidence_collected">>)]

OnAgentRecommendation(s, e, t) ==
  LET id == AgentIdOf(e)
  IN IF ~KnownAgent(s, id) THEN s
     ELSE [s EXCEPT
             !.agents = Put(s.agents, id,
                            [incrementAgentTrace(s.agents[id], e.ts) EXCEPT
                               !.percentComplete = Max(s.agents[id].percentComplete, 85)]),
             !.runProgress = MergeProgress(s, e, <<"recommendation_ready">>)]

\* The bookkeeping shared by span.ended and agent.completed.
Finish(s, e, id, agent, success, step) ==
  LET d == Deactivate(s, e, id, agent, step)
      completed == IF success THEN Dedup(Append(s.completedAgentIds, id))
                   ELSE s.completedAgentIds
      failed == IF ~success THEN Dedup(Append(s.failedAgentIds, id))
                ELSE s.failedAgentIds
  IN [d EXCEPT !.completedAgentIds = completed,
               !.failedAgentIds = failed,
               !.runProgress.agentsDone = Len(completed),
               !.runProgress.agentsErrored = Len(failed)]

\* A span.ended that treats an agent with no open span as a failure.
OnSpanEndedStrict(s, e, t) ==
  LET id == AgentIdOf(e)
      success == /\ ~(Has(e.payload, "success") /\ e.payload.success = FALSE)
                 /\ KnownAgent(s, id)
                 /\ s.agents[id].status \in {"activated", "thinking", "querying", "idle"}
  IN IF ~KnownAgent(s, id) THEN s
     ELSE Finish(s, e, id,
                 [incrementAgentTrace(s.agents[id], e.ts) EXCEPT
                    !.status = IF success THEN "done" ELSE "error",
                    !.endedAt = e.ts,
                    !.percentComplete = IF success THEN 100 ELSE @],
                 success,
                 IF success THEN <<"completed", id>> ELSE <<"failed", id>>)

OnSpanEnded(s, e, t) ==
  LET id == AgentIdOf(e)
      success == ~(Has(e.payload, "success") /\ e.payload.success = FALSE)
  IN IF ~KnownAgent(s, id) THEN s
     ELSE Finish(s, e, id,
                 [incrementAgentTrace(s.agents[id], e.ts) EXCEPT
                    !.status = IF success THEN "done" ELSE "error",
                    !.endedAt = e.ts,
                    !.percentComplete = IF success THEN 100 ELSE @],
                 success,
                 IF success THEN <<"completed", id>> ELSE <<"failed", id>>)

OnAgentCompleted(s, e, t) ==
  LET id == AgentIdOf(e)
      isSuccess == payloadString(e.payload, "status", "completed") # "failed"
      fin == Finish(s, e, id,
                    [incrementAgentTrace(s.agents[id], e.ts) EXCEPT
                       !.status = IF isSuccess THEN "done" ELSE "error",
                       !.startedAt = payloadString(e.payload, "startedAt", @),
                       !.endedAt = payloadString(e.payload, "endedAt", e.ts),
                       !.percentComplete = 100,
                       !.executionCount =
                          payloadNumber(e.payload, "executionCount", @)],
                    isSuccess, <<"agent_completed", id>>)
  IN IF ~KnownAgent(s, id) THEN s
     ELSE [fin EXCEPT !.runProgress.overallPct =
                         IF ReportedRunPct(e) >= 0 THEN ReportedRunPct(e)
                         ELSE Max(s.runProgress.overallPct, 90)]


OnHandover(s, e, t) ==
  LET fromAgent == payloadString(e.payload, "fromAgent", "")
      toAgent == payloadString(e.payload, "toAgent", "")
      touched == {fromAgent, toAgent} \cap DOMAIN s.agents
  IN IF fromAgent = "" \/ toAgent = "" THEN s
     ELSE [s EXCEPT
             !.agents = [x \in DOMAIN s.agents |->
                           IF x \in touched THEN incrementAgentTrace(s.agents[x], e.ts)
                           ELSE s.agents[x]],
             !.agentEdges =
                Append(s.agentEdges,
                       [id |-> <<fromAgent, toAgent>>, at |-> t, source |-> fromAgent,
                        target |-> toAgent, animated |-> TRUE, timestamp |-> e.ts]),
             !.runProgress = MergeProgress(s, e, <<"handover", fromAgent, toAgent>>)]

PLAN_CRITERIA ==
  <<"delay_reduction", "crew_margin", "safety_score", "cost_impact", "passenger_impact">>

OnCoordinatorScoring(s, e, t) ==
  LET options == payloadArray(e.payload, "options")
      criteria == payloadArray(e.payload, "criteria")
  IN [s EXCEPT
        !.recoveryOptions = options,
        !.recoveryPlan =
           IF s.recoveryPlan # << >>
           THEN <<[s.recoveryPlan[1] EXCEPT !.options = options, !.criteria = criteria]>>
           ELSE << >>,
        !.bottomDrawerTab = "plan",
        !.bottomDrawerOpen = TRUE]

\* parseTimelineEntry: << >> for null, else the one parsed entry.
parseTimelineEntry(raw) ==
  IF ~(Has(raw, "time") /\ Has(raw, "action")) THEN << >>
  ELSE <<[time |-> raw.time, action |-> raw.action,
          agent |-> payloadString(raw, "agent", ""),
          status |-> IF payloadString(raw, "status", "") \in {"pending", "in_progress", "completed"}
                     THEN raw.status ELSE "pending"]>>

RECURSIVE ParseTimeline(_)
ParseTimeline(raw) ==
  IF raw = << >> THEN << >>
  ELSE parseTimelineEntry(raw[1]) \o ParseTimeline(Tail(raw))

OnCoordinatorPlan(s, e, t) ==
  LET currentOptions == s.recoveryOptions
  IN [s EXCEPT
        !.recoveryPlan =
           <<[selectedOptionId |-> payloadString(e.payload, "selectedOptionId", ""),
              summary |-> payloadString(e.payload, "summary", ""),
              timeline |-> ParseTimeline(payloadArray(e.payload, "timeline")),
              options |-> IF Len(currentOptions) > 0 THEN currentOptions
                          ELSE payloadArray(e.payload, "options"),
              criteria |-> PLAN_CRITERIA]>>,
        !.bottomDrawerTab = "plan",
        !.bottomDrawerOpen = TRUE]

parseRecoveryScores(payload) ==
  LET raw == IF Has(payload, "scores") THEN payload.scores ELSE NoPayload
  IN [delay_reduction |-> payloadNumber(raw, "delay_reduction", 0),
      crew_margin |-> payloadNumber(raw, "crew_margin", 0),
      safety_score |-> payloadNumber(raw, "safety_score", 0),
      cost_impact |-> payloadNumber(raw, "cost_impact", 0),
      passenger_impact |-> payloadNumber(raw, "passenger_impact", 0)]

\* An overall score that ignores the weights.
OverallScoreUnweighted(scores) ==
  (scores.delay_reduction + scores.crew_margin + scores.safety_score
     + scores.cost_impact + scores.passenger_impact) * 20

\* overallScore in hundredths: the weights 0.25, 0.15, 0.25, 0.15, 0.20 times 100.
OverallScore(scores) ==
  scores.delay_reduction * 25 + scores.crew_margin * 15 + scores.safety_score * 25
    + scores.cost_impact * 15 + scores.passenger_impact * 20

OnRecoveryOption(s, e, t) ==
  LET scores == parseRecoveryScores(e.payload)
      option == [optionId |-> payloadString(e.payload, "optionId", ""),
                 description |-> payloadString(e.payload, "description", ""),
                 rank |-> payloadNumber(e.payload, "rank", 0),
                 scores |-> scores,
                 overallScore |-> OverallScore(scores)]
  IN [s EXCEPT !.recoveryOptions = Append(s.recoveryOptions, option)]

OnOrchestrator(s, e, t) ==
  [s EXCEPT !.bottomDrawerTab = "timeline",
            !.bottomDrawerOpen = TRUE,
            !.runProgress = MergeProgress(s, e, <<"orchestrator_planning">>)]

OnWorkflowStatus(s, e, t) ==
  LET executorId == payloadString(e.payload, "executor_id", "")
      workflowState == payloadString(e.payload, "workflowState", "")
  IN [s EXCEPT
        !.agents = IF KnownAgent(s, executorId)
                   THEN Put(s.agents, executorId,
                            incrementAgentTrace(s.agents[executorId], e.ts))
                   ELSE s.agents,
        !.runProgress =
           MergeProgress(s, e,
              <<OrStr(workflowState, payloadString(e.payload, "status", "workflow_status"))>>)]

OnProgressUpdate(s, e, t) ==
  [s EXCEPT !.runProgress =
     [MergeProgress(s, e, s.runProgress.currentStep) EXCEPT
        !.agentsTotal = payloadNumber(e.payload, "agentsTotal", @),
        !.agentsActivated = payloadNumber(e.payload, "agentsActivated", @),
        !.agentsRunning = payloadNumber(e.payload, "agentsRunning", @),
        !.agentsDone = payloadNumber(e.payload, "agentsDone", @),
        !.agentsErrored = payloadNumber(e.payload, "agentsErrored", @)]]

OnRunStarted(s, e, t) ==
  [s EXCEPT !.runProgress =
     [MergeProgress(s, e, <<"run_started">>) EXCEPT
        !.status = "running",
        !.overallPct = IF ReportedRunPct(e) >= 0 THEN ReportedRunPct(e)
                       ELSE Max(s.runProgress.overallPct, 1)]]

OnRunCompleted(s, e, t) ==
  [s EXCEPT !.runProgress =
              [s.runProgress EXCEPT
                 !.status = "completed", !.overallPct = 100, !.agentsRunning = 0,
                 !.currentStep = <<"run_completed">>, !.lastEventKind = e.kind,
                 !.lastUpdateAt = e.ts, !.isStale = FALSE],
            !.noUpdateWarning = FALSE]

OnRunFailed(s, e, t) ==
  [s EXCEPT !.runProgress =
              [s.runProgress EXCEPT
                 !.status = "failed", !.agentsRunning = 0,
                 !.currentStep = <<"run_failed">>, !.lastEventKind = e.kind,
                 !.lastUpdateAt = e.ts, !.isStale = FALSE],
            !.noUpdateWarning = FALSE]

\* A reducer that counts a trace for the agent of an unrecognized kind.
OnUnrecognizedTraced(s, e, t) ==
  IF KnownAgent(s, AgentIdOf(e))
  THEN [s EXCEPT !.agents = Put(s.agents, AgentIdOf(e),
                                incrementAgentTrace(s.agents[AgentIdOf(e)], e.ts))]
  ELSE s

\* The switch has no default case: a kind that matches no case changes nothing.
OnUnrecognized(s, e, t) == s

processAgentEvent(s, e, t) ==
  CASE e.kind = K_AGENT_ACTIVATED -> OnAgentActivated(s, e, t)
    [] e.kind = K_AGENT_EXCLUDED -> OnAgentExcluded(s, e, t)
    [] e.kind = K_SPAN_STARTED -> OnSpanStarted(s, e, t)
    [] e.kind = K_AGENT_OBJECTIVE -> OnAgentObjective(s, e, t)
    [] e.kind \in {K_AGENT_PROGRESS, K_AGENT_STREAMING} -> OnAgentProgress(s, e, t)
    [] e.kind = K_EXECUTOR_INVOKED -> OnExecutorInvoked(s, e, t)
    [] e.kind = K_EXECUTOR_COMPLETED -> OnExecutorCompleted(s, e, t)
    [] e.kind = K_DATA_SOURCE_QUERY_START -> OnQueryStart(s, e, t)
    [] e.kind = K_DATA_SOURCE_QUERY_COMPLETE -> OnQueryComplete(s, e, t)
    [] e.kind \in {K_TOOL_CALLED, K_TOOL_CALLED_LEGACY} -> OnToolCalled(s, e, t)
    [] e.kind \in {K_TOOL_COMPLETED, K_TOOL_COMPLETED_LEGACY,
                   K_TOOL_FAILED, K_TOOL_FAILED_LEGACY} -> OnToolFinished(s, e, t)
    [] e.kind = K_AGENT_EVIDENCE -> OnAgentEvidence(s, e, t)
    [] e.kind = K_AGENT_RECOMMENDATION -> OnAgentRecommendation(s, e, t)
    [] e.kind = K_SPAN_ENDED -> OnSpanEnded(s, e, t)
    [] e.kind \in {K_AGENT_COMPLETED, K_AGENT_COMPLETED_LEGACY} -> OnAgentCompleted(s, e, t)
    [] e.kind = K_HANDOVER -> OnHandover(s, e, t)
    [] e.kind = K_COORDINATOR_SCORING -> OnCoordinatorScoring(s, e, t)
    [] e.kind = K_COORDINATOR_PLAN -> OnCoordinatorPlan(s, e, t)
    [] e.kind = K_RECOVERY_OPTION -> OnRecoveryOption(s, e, t)
    [] e.kind \in {K_ORCHESTRATOR_PLAN, K_ORCHESTRATOR_DECISION} -> OnOrchestrator(s, e, t)
    [] e.kind = K_WORKFLOW_STATUS -> OnWorkflowStatus(s, e, t)
    [] e.kind = K_PROGRESS_UPDATE -> OnProgressUpdate(s, e, t)
    [] e.kind = K_RUN_STARTED -> OnRunStarted(s, e, t)
    [] e.kind = K_RUN_COMPLETED -> OnRunCompleted(s, e, t)
    [] e.kind = K_RUN_FAILED -> OnRunFailed(s, e, t)
    [] OTHER -> OnUnrecognized(s, e, t)

(***************************************************************************)
(* addEvent: the ingestion buffer, then the reducer.                       *)
(***************************************************************************)
\* The set() call of addEvent: buffer, cursor, rate and the progress floor.
Admit(s, e, t) ==
  LET effectiveTs == OrTs(e.ts, t)
      recentEvents == SliceLast(Append(s.events, e), MAX_STORED_EVENTS)
      cutoffMs == t - RATE_WINDOW_MS
      eventRatePerMin ==
        Len(SelectSeq(recentEvents,
                      LAMBDA x : ParsesOk(x.ts) /\ x.ts >= cutoffMs /\ x.kind # K_HEARTBEAT))
      runPct == payloadNumber(e.payload, "runProgressPct", s.runProgress.overallPct)
      nextProgress ==
        [s.runProgress EXCEPT
           !.overallPct = Max(s.runProgress.overallPct, runPct),
           !.status = IF e.kind = K_RUN_COMPLETED THEN "completed"
                      ELSE IF e.kind = K_RUN_FAILED THEN "failed"
                      ELSE IF e.kind = K_RUN_STARTED THEN "running"
                      ELSE @,
           !.currentStep = IF Has(e.payload, "currentStep")
                           THEN <<e.payload.currentStep>> ELSE @,
           !.lastEventKind = e.kind,
           !.lastUpdateAt = effectiveTs,
           !.eventRatePerMin = eventRatePerMin,
           !.isLive = s.isConnected]
  IN [s EXCEPT !.events = recentEvents,
               !.lastEventId = OrStr(e.stream_id, e.event_id),
               !.lastMeaningfulEventAt =
                  IF isMeaningfulEvent(e.kind) THEN effectiveTs ELSE @,
               !.eventRatePerMin = eventRatePerMin,
               !.runProgress = nextProgress]

addEvent(s, e, t) ==
  processAgentEvent(updateRunFromEvent(Admit(s, e, t), e), e, t)


(***************************************************************************)
(* The stream connector (hooks/use-sse.ts).                                *)
(*                                                                         *)
(* hook: the refs and state of one useSSE instance.  eventSourceRef and    *)
(* reconnectTimeoutRef hold the id of a transport / timer, 0 for null.     *)
(* net: the EventSource objects that are not closed (a closed one never    *)
(* fires again), the pending setTimeout timers, and the upstream's frames. *)
(* Each transport and timer carries the runId/enabled its connect closure  *)
(* captured.  lastEventIdRef is assigned from the store on every render,   *)
(* and the store re-renders the hook on every change, so connect reads     *)
(* store.lastEventId.                                                      *)
(***************************************************************************)
MAX_RECONNECT_ATTEMPTS == 10

BACKOFF_BASE_MS == 1000

BACKOFF_CAP_MS == 30000

InitialHook ==
  [mounted |-> TRUE, runId |-> "", eventSourceRef |-> 0, reconnectTimeoutRef |-> 0,
   staleIntervalRef |-> FALSE, retries |-> 0, lastSequence |-> 0,
   reconnecting |-> FALSE]

NoTransports == [x \in {} |-> 0]

\* The runId and enabled a render passes to useSSE (chat-sidebar.tsx).
Props(s) == [runId |-> s.currentRunId, enabled |-> s.currentRunId # ""]

\* A connect that never sends a cursor.
ConnectSinceNone(s) == ""

\* The cursor connect puts in the URL: ?since=<lastEventIdRef.current>, "" for none.
ConnectSince(s) == s.lastEventId

\* Where the upstream resumes for a cursor: after the frame the cursor names,
\* from the start of the run's stream for no cursor or an unknown one.
ResumeIndex(log, since) ==
  LET hits == {i \in 1..Len(log) :
                 since # "" /\ since \in {log[i].env.stream_id, log[i].lastEventId,
                                          log[i].env.event_id}}
  IN IF hits = {} THEN 1 ELSE (CHOOSE i \in hits : \A j \in hits : j <= i) + 1

\* The frames the upstream holds for a run: net.log for the first run,
\* net.log2 for the second.
LogOf(n, runId) == IF runId = "r2" THEN n.log2 ELSE n.log

\* connect(): [hook, net] after the call, for the closure cl of the caller.
connect(h, n, s, cl) ==
  IF ~cl.enabled \/ cl.runId = "" \/ ~h.mounted THEN [hook |-> h, net |-> n]
  ELSE LET id == n.nextId
           since == ConnectSince(s)
       IN [hook |-> [h EXCEPT !.eventSourceRef = id],
           net |-> [n EXCEPT
                      !.transports =
                         Put(@, id, [state |-> "connecting", since |-> since,
                                     pos |-> ResumeIndex(LogOf(n, cl.runId), since),
                                     cl |-> cl]),
                      !.nextId = id + 1]]

\* eventSource.close()
CloseTransport(n, id) ==
  [n EXCEPT !.transports = [x \in (DOMAIN n.transports) \ {id} |-> n.transports[x]]]

\* clearTimeout(id)
ClearTimer(n, id) == [n EXCEPT !.timers = {tm \in n.timers : tm.id # id}]

\* The backoff without its cap.
ReconnectDelayUncapped(retries) == BACKOFF_BASE_MS * 2 ^ (retries - 1)

\* Math.min(1000 * 2 ** (retries - 1), 30000)
ReconnectDelay(retries) == Min(BACKOFF_BASE_MS * 2 ^ (retries - 1), BACKOFF_CAP_MS)

\* A retry guard that is off by one (<= instead of <).
MayRetryInclusive(h, s) == Props(s).enabled /\ h.retries <= MAX_RECONNECT_ATTEMPTS

\* if (enabledRef.current && retriesRef.current < MAX_RECONNECT_ATTEMPTS)
MayRetry(h, s) == Props(s).enabled /\ h.retries < MAX_RECONNECT_ATTEMPTS

\* A disconnect that leaves the reconnect timer pending.
disconnectKeepsTimer(h, n, s) ==
  LET n1 == IF h.eventSourceRef # 0 THEN CloseTransport(n, h.eventSourceRef) ELSE n
  IN [hook |-> [h EXCEPT !.eventSourceRef = 0, !.reconnectTimeoutRef = 0,
                         !.staleIntervalRef = FALSE, !.reconnecting = FALSE,
                         !.retries = 0],
      net |-> n1,
      store |-> setConnected(s, FALSE)]

\* disconnect(): [hook, net, store] after the call.
disconnect(h, n, s) ==
  LET n1 == IF h.eventSourceRef # 0 THEN CloseTransport(n, h.eventSourceRef) ELSE n
      n2 == IF h.reconnectTimeoutRef # 0 THEN ClearTimer(n1, h.reconnectTimeoutRef) ELSE n1
  IN [hook |-> [h EXCEPT !.eventSourceRef = 0, !.reconnectTimeoutRef = 0,
                         !.staleIntervalRef = FALSE, !.reconnecting = FALSE,
                         !.retries = 0],
      net |-> n2,
      store |-> setConnected(s, FALSE)]

\* A handler that gives up the transport on a frame it cannot parse.
OnParseErrorCloses(h, n, s) == disconnect(h, n, s)

\* catch (err) { console.error(...) }: [hook, net, store] are left as they are.
OnParseError(h, n, s) == [hook |-> h, net |-> n, store |-> s]

\* event.stream_id = event.stream_id || e.lastEventId || undefined
Stamped(frame) ==
  [frame.env EXCEPT !.stream_id = OrStr(frame.env.stream_id, frame.lastEventId)]

\* The sequence bookkeeping of handleSSEEvent: is the envelope flagged out of order?
OutOfOrder(h, e) == e.sequence # 0 /\ e.sequence <= h.lastSequence

NextSequence(h, e) ==
  IF e.sequence # 0 /\ ~OutOfOrder(h, e) THEN e.sequence ELSE h.lastSequence

\* A handler without the heartbeat interception.
IsHeartbeatNever(e) == FALSE

IsHeartbeat(e) == e.kind = K_HEARTBEAT

\* A handler that takes only run_completed for terminal.
IsTerminalCompletedOnly(e) == e.kind = K_RUN_COMPLETED

IsTerminal(e) == e.kind \in {K_RUN_COMPLETED, K_RUN_FAILED}


(***************************************************************************)
(* Bounds and inputs                                                       *)
(***************************************************************************)
\* Date.now() when the model starts.
StartMs == 100000

\* Store operations per behaviour of the store specification.
MaxSteps == 4

\* The rosters initializeAgents is called with.
Rosters ==
  {<<AgentInfo("A", TRUE), AgentInfo("B", FALSE)>>, <<AgentInfo("A", TRUE)>>}

RunIds == {"", "r1"}

Pct(n) == [runProgressPct |-> n]

\* The envelopes the store specification admits.
DriveEnvs ==
  {Env(K_AGENT_ACTIVATED, "A", NoTs, Pct(30)),
   Env(K_DATA_SOURCE_QUERY_START, "A", NoTs, [sourceType |-> "SQL"]),
   Env(K_SPAN_STARTED, "A", NoTs, NoPayload),
   Env(K_SPAN_ENDED, "A", NoTs, NoPayload),
   Env(K_SPAN_ENDED, "A", NoTs, [success |-> FALSE]),
   Env(K_PROGRESS_UPDATE, "A", NoTs, Pct(50)),
   Env(K_UNKNOWN, "B", NoTs, NoPayload)}

NoEnv == Env("", "", NoTs, NoPayload)

\* One frame of the event stream: the envelope in its data and the SSE id.
SseFrame(env, id) == [env |-> env, lastEventId |-> id, valid |-> TRUE]

\* A frame whose data JSON.parse rejects.
BadFrame(id) == [env |-> NoEnv, lastEventId |-> id, valid |-> FALSE]

\* The frames the upstream holds for run r1.
Script ==
  <<SseFrame(WithId(Env(K_AGENT_ACTIVATED, "A", StartMs, Pct(30)), "e1", "", 1), "1-0"),
    SseFrame(Env(K_HEARTBEAT, "", NoTs, NoPayload), ""),
    SseFrame(WithId(Env(K_DATA_SOURCE_QUERY_START, "A", StartMs, [sourceType |-> "SQL"]),
                    "e2", "", 2), "2-0"),
    SseFrame(WithId(Env(K_RECOVERY_OPTION, "", StartMs, [optionId |-> "o1", rank |-> 1]),
                    "e3", "3-0", 3), ""),
    SseFrame(Env(K_HEARTBEAT, "", StartMs - 1000, NoPayload), "hb-1"),
    SseFrame(WithId(Env(K_SPAN_ENDED, "A", StartMs, NoPayload), "e4", "", 4), "4-0"),
    SseFrame(WithId(Env(K_RUN_COMPLETED, "", StartMs, NoPayload), "e5", "", 5), "5-0")>>

\* The frames the upstream holds for run r2.
ScriptR2 ==
  <<SseFrame(WithId(Env(K_AGENT_ACTIVATED, "A", StartMs, Pct(10)), "f1", "", 1), "r2-1"),
    SseFrame(WithId(Env(K_RUN_COMPLETED, "", StartMs, NoPayload), "f2", "", 2), "r2-2")>>

InitialNet ==
  [transports |-> NoTransports, timers |-> {}, log |-> Script, log2 |-> ScriptR2,
   nextId |-> 1, nextTimer |-> 1]

\* History: the last operation and its envelope, whether it repeated the
\* previous addEvent, and the number of operations so far.
InitialHist ==
  [op |-> "init", env |-> NoEnv, repeat |-> FALSE, steps |-> 0,
   quietSince |-> NoTs, hbSeen |-> FALSE, staleAtAdmit |-> FALSE,
   boundarySeen |-> FALSE, admitted |-> << >>, delays |-> << >>,
   resumed |-> FALSE, highSeq |-> [r \in {"r1", "r2"} |-> 0], ended |-> {},
   was |-> "idle", run |-> "", roster |-> << >>]

Note(op, e) ==
  [hist EXCEPT !.op = op, !.env = e, !.repeat = FALSE, !.steps = @ + 1]

Init ==
  /\ store = InitialStore
  /\ now = StartMs
  /\ hook = InitialHook
  /\ net = InitialNet
  /\ hist = InitialHist

(***************************************************************************)
(* Store actions                                                           *)
(***************************************************************************)
Budget == hist.steps < MaxSteps

AddEvent(e) ==
  /\ Budget
  /\ store' = addEvent(store, e, now)
  /\ hist' = [Note("addEvent", e) EXCEPT
                !.repeat = (hist.op = "addEvent" /\ hist.env = e)]
  /\ UNCHANGED <<now, hook, net>>

ClearEvents ==
  /\ Budget
  /\ store' = clearEvents(store)
  /\ hist' = Note("clearEvents", NoEnv)
  /\ UNCHANGED <<now, hook, net>>

SetCurrentRunId(runId) ==
  /\ Budget
  /\ store' = setCurrentRunId(store, runId)
  /\ hist' = Note("setCurrentRunId", NoEnv)
  /\ UNCHANGED <<now, hook, net>>

InitializeAgents(roster) ==
  /\ Budget
  /\ store' = initializeAgents(store, roster, "hub_disruption")
  /\ hist' = Note("initializeAgents", NoEnv)
  /\ UNCHANGED <<now, hook, net>>

Next ==
  \/ \E e \in DriveEnvs : AddEvent(e)
  \/ ClearEvents
  \/ \E r \in RunIds : SetCurrentRunId(r)
  \/ \E roster \in Rosters : InitializeAgents(roster)

Spec == Init /\ [][Next]_vars

(***************************************************************************)
(* Properties of the store specification                                   *)
(***************************************************************************)
Admitted == hist.op = "addEvent"

\* C1: for any sequence of admitted envelopes, runProgress.overallPct observed
\* after each addEvent is not lower than before it (resets excepted).
C1_OverallPctNonDecreasing ==
  [][hist'.op = "addEvent" =>
       store'.runProgress.overallPct >= store.runProgress.overallPct]_vars

\* C2: the events buffer never holds more than MAX_STORED_EVENTS envelopes, and
\* admitting into a full buffer evicts exactly the oldest envelope, the others
\* keeping their arrival order with the new one last.
C2_BoundedBuffer ==
  /\ [](Len(store.events) <= MAX_STORED_EVENTS)
  /\ [][hist'.op = "addEvent" =>
          store'.events =
             IF Len(store.events) < MAX_STORED_EVENTS
             THEN Append(store.events, hist'.env)
             ELSE Append(Tail(store.events), hist'.env)]_vars

\* More envelopes were admitted since the last reset than the buffer holds.
C2_EvictionHappened ==
  /\ Admitted
  /\ Len(store.events) = MAX_STORED_EVENTS
  /\ "A" \in DOMAIN store.agents
  /\ store.agents["A"].traceCount > MAX_STORED_EVENTS

\* The envelopes applied twice in a row to every reachable store.
ProbeKinds ==
  {K_RUN_STARTED, K_RUN_COMPLETED, K_RUN_FAILED, K_SPAN_STARTED, K_SPAN_ENDED,
   K_AGENT_ACTIVATED, K_AGENT_EXCLUDED, K_AGENT_EVIDENCE, K_AGENT_RECOMMENDATION,
   K_AGENT_STREAMING, K_AGENT_OBJECTIVE, K_AGENT_PROGRESS,
   K_DATA_SOURCE_QUERY_START, K_DATA_SOURCE_QUERY_COMPLETE, K_EXECUTOR_INVOKED,
   K_EXECUTOR_COMPLETED, K_AGENT_COMPLETED, K_AGENT_COMPLETED_LEGACY,
   K_TOOL_CALLED, K_TOOL_COMPLETED, K_TOOL_FAILED, K_TOOL_CALLED_LEGACY,
   K_TOOL_COMPLETED_LEGACY, K_TOOL_FAILED_LEGACY, K_COORDINATOR_SCORING,
   K_COORDINATOR_PLAN, K_RECOVERY_OPTION, K_HANDOVER, K_ORCHESTRATOR_PLAN,
   K_ORCHESTRATOR_DECISION, K_PROGRESS_UPDATE, K_WORKFLOW_STATUS,
   K_STAGE_STARTED, K_UNKNOWN}

ProbeEnvs ==
  {Env(k, "A", NoTs, NoPayload) : k \in ProbeKinds} \cup
  {Env(K_SPAN_ENDED, "A", NoTs, [success |-> FALSE]),
   Env(K_AGENT_COMPLETED, "A", NoTs, [status |-> "failed"]),
   Env(K_EXECUTOR_COMPLETED, "A", NoTs, [status |-> "failed"]),
   Env(K_AGENT_PROGRESS, "A", NoTs, [percentComplete |-> 40]),
   Env(K_DATA_SOURCE_QUERY_START, "A", NoTs, [sourceType |-> "SQL"]),
   Env(K_DATA_SOURCE_QUERY_COMPLETE, "A", NoTs,
       [sourceType |-> "SQL", latencyMs |-> 120, resultCount |-> 7]),
   Env(K_TOOL_CALLED, "A", NoTs, [toolName |-> "lookup"]),
   Env(K_TOOL_COMPLETED, "A", NoTs, [toolName |-> "lookup"]),
   Env(K_HANDOVER, "A", NoTs, [fromAgent |-> "A", toAgent |-> "B"]),
   Env(K_HANDOVER, "A", NoTs, [fromAgent |-> "B", toAgent |-> "B"]),
   Env(K_WORKFLOW_STATUS, "", NoTs, [executor_id |-> "A"]),
   Env(K_PROGRESS_UPDATE, "A", NoTs, Pct(40)),
   Env(K_AGENT_ACTIVATED, "", NoTs, [agentId |-> "B"])}

\* The kinds whose case of the reducer updates the agent the envelope is
\* attributed to.
AgentCaseKinds ==
  {K_SPAN_STARTED, K_SPAN_ENDED, K_AGENT_ACTIVATED, K_AGENT_EXCLUDED,
   K_AGENT_EVIDENCE, K_AGENT_RECOMMENDATION, K_AGENT_STREAMING, K_AGENT_OBJECTIVE,
   K_AGENT_PROGRESS, K_DATA_SOURCE_QUERY_START, K_DATA_SOURCE_QUERY_COMPLETE,
   K_EXECUTOR_INVOKED, K_EXECUTOR_COMPLETED, K_AGENT_COMPLETED,
   K_AGENT_COMPLETED_LEGACY, K_TOOL_CALLED, K_TOOL_COMPLETED, K_TOOL_FAILED,
   K_TOOL_CALLED_LEGACY, K_TOOL_COMPLETED_LEGACY, K_TOOL_FAILED_LEGACY}

CountsTrace(e) ==
  \/ e.kind \in AgentCaseKinds
  \/ /\ e.kind = K_HANDOVER
     /\ Has(e.payload, "fromAgent") /\ Has(e.payload, "toAgent")
     /\ AgentIdOf(e) \in {e.payload.fromAgent, e.payload.toAgent}
  \/ /\ e.kind = K_WORKFLOW_STATUS
     /\ Has(e.payload, "executor_id")

MaxStaleSteps == 7

MaxElapsedMs == 42000

TickSteps == {1000, 20000}

OldTs == StartMs - 30000

StaleEnvs ==
  {Env(K_PROGRESS_UPDATE, "", NoTs, NoPayload),
   Env(K_PROGRESS_UPDATE, "", OldTs, NoPayload),
   Env(K_RUN_COMPLETED, "", NoTs, NoPayload)}

StaleBudget == hist.steps < MaxStaleSteps

StaleNote(op, e) ==
  [hist EXCEPT !.op = op, !.env = e, !.steps = @ + 1, !.staleAtAdmit = FALSE]

\* eventSource.onopen / onerror as the store sees them.
StaleSetConnected(c) ==
  /\ StaleBudget
  /\ store' = setConnected(store, c)
  /\ hist' = [StaleNote("setConnected", NoEnv) EXCEPT
                !.quietSince = IF c THEN now ELSE NoTs, !.hbSeen = FALSE]
  /\ UNCHANGED <<now, hook, net>>

StaleAddEvent(e) ==
  /\ StaleBudget
  /\ store' = addEvent(store, e, now)
  /\ hist' = [StaleNote("addEvent", e) EXCEPT
                !.quietSince = IF store.isConnected THEN now ELSE NoTs,
                !.hbSeen = FALSE,
                !.staleAtAdmit = store.runProgress.isStale]
  /\ UNCHANGED <<now, hook, net>>

StaleHeartbeat(ts) ==
  /\ StaleBudget
  /\ store' = noteHeartbeat(store, ts, now)
  /\ hist' = [StaleNote("noteHeartbeat", NoEnv) EXCEPT !.hbSeen = TRUE]
  /\ UNCHANGED <<now, hook, net>>

Tick(d) ==
  /\ StaleBudget
  /\ now + d <= StartMs + MaxElapsedMs
  /\ now' = now + d
  /\ hist' = [hist EXCEPT !.op = "tick", !.steps = @ + 1]
  /\ UNCHANGED <<store, hook, net>>

\* The interval callback: evaluateStaleness(Date.now()).
Poll ==
  /\ StaleBudget
  /\ store' = evaluateStaleness(store, now)
  /\ hist' = [hist EXCEPT
                !.op = "poll", !.steps = @ + 1,
                !.boundarySeen =
                   \/ @
                   \/ /\ store.isConnected
                      /\ ParsesOk(store.lastMeaningfulEventAt)
                      /\ now - store.lastMeaningfulEventAt = STALE_AFTER_MS
                      /\ ~store'.runProgress.isStale]
  /\ UNCHANGED <<now, hook, net>>

NextStale ==
  \/ \E c \in BOOLEAN : StaleSetConnected(c)
  \/ \E e \in StaleEnvs : StaleAddEvent(e)
  \/ \E ts \in {NoTs, OldTs} : StaleHeartbeat(ts)
  \/ \E d \in TickSteps : Tick(d)
  \/ Poll

SpecStale == Init /\ [][NextStale]_vars

(***************************************************************************)
(* Properties of the staleness monitor                                     *)
(***************************************************************************)
\* now - lastMeaningfulEventAt > 20 s; false when there is no parsable
\* lastMeaningfulEventAt to subtract.
QuietTooLong ==
  /\ ParsesOk(store.lastMeaningfulEventAt)
  /\ now - store.lastMeaningfulEventAt > 20000

MeaningfulAdmit == hist'.op = "addEvent" /\ isMeaningfulEvent(hist'.env.kind)

\* C6 as stated: whenever isStale is true and a meaningful envelope is then
\* admitted by addEvent, isStale is false after that addEvent.
C6_MeaningfulEventClearsStale ==
  [][(MeaningfulAdmit /\ store.runProgress.isStale)
       => ~store'.runProgress.isStale]_vars

\* C6 amended: addEvent of a meaningful envelope records its effective
\* timestamp as lastMeaningfulEventAt and leaves isStale as it was, unless the
\* envelope is run_completed or run_failed, which clear it; the next
\* evaluateStaleness poll clears isStale when its now is within 20 s of
\* lastMeaningfulEventAt.
C6_StaleClearedByNextPoll ==
  /\ [][MeaningfulAdmit =>
          /\ store'.lastMeaningfulEventAt = OrTs(hist'.env.ts, now)
          /\ store'.runProgress.isStale =
                (store.runProgress.isStale /\ ~IsTerminal(hist'.env))]_vars
  /\ [][(hist'.op = "poll" /\ store.runProgress.isStale
           /\ ParsesOk(store.lastMeaningfulEventAt)
           /\ now - store.lastMeaningfulEventAt <= STALE_AFTER_MS)
          => ~store'.runProgress.isStale]_vars

\* A meaningful envelope was admitted while stale, the flag survived the
\* admission, and the poll that followed cleared it while still connected.
C6_ClearedAtPoll ==
  /\ hist.op = "poll"
  /\ hist.staleAtAdmit
  /\ store.isConnected
  /\ ~IsTerminal(hist.env)
  /\ ~store.runProgress.isStale

\* C7: a connection that has stayed open for more than 20 s and has delivered
\* only heartbeats in that time is flagged stale by the evaluateStaleness poll.
C7_HeartbeatOnlyFlaggedStale ==
  (/\ hist.op = "poll"
   /\ store.isConnected
   /\ hist.hbSeen
   /\ hist.quietSince # NoTs
   /\ now - hist.quietSince > STALE_AFTER_MS)
  => store.runProgress.isStale

(***************************************************************************)
(* The stream connector driven by the chat sidebar, the browser and the    *)
(* upstream.  hist.admitted lists the envelopes handed to addEvent,        *)
(* hist.delays the delays of the reconnects scheduled since the last open  *)
(* or disconnect, hist.resumed whether a reconnect carried a cursor.       *)
(***************************************************************************)
MaxTransports == 12

ConnNote(op, e) == [hist EXCEPT !.op = op, !.env = e]

\* handleSend of the chat sidebar, on a response carrying run_id, agents and
\* scenario.
HandleSend ==
  /\ hook.mounted
  /\ store.currentRunId = ""
  /\ store' = initializeAgents(setCurrentRunId(store, "r1"),
                               <<AgentInfo("A", TRUE), AgentInfo("B", FALSE)>>,
                               "scenario")
  /\ hist' = ConnNote("handleSend", NoEnv)
  /\ UNCHANGED <<now, hook, net>>

\* The effect of useSSE after a render with new runId/enabled: the cleanup of
\* the previous effect, then the body.
UseEffect ==
  /\ hook.mounted
  /\ hook.runId # Props(store).runId
  /\ net.nextId <= MaxTransports
  /\ LET cl == Props(store)
         d == disconnect([hook EXCEPT !.mounted = FALSE], net, store)
         h1 == [d.hook EXCEPT !.mounted = TRUE, !.runId = cl.runId]
         c == IF cl.enabled /\ cl.runId # ""
              THEN connect(h1, d.net, d.store, cl)
              ELSE [hook |-> h1, net |-> d.net]
     IN /\ hook' = [c.hook EXCEPT !.staleIntervalRef = (cl.enabled /\ cl.runId # "")]
        /\ net' = c.net
        /\ store' = d.store
  /\ hist' = [ConnNote("useEffect", NoEnv) EXCEPT !.delays = << >>]
  /\ UNCHANGED now

\* eventSource.onopen
Open(i) ==
  /\ i \in DOMAIN net.transports
  /\ net.transports[i].state = "connecting"
  /\ net' = [net EXCEPT !.transports[i].state = "open"]
  /\ IF hook.mounted
     THEN /\ store' = setConnected(store, TRUE)
          /\ hook' = [hook EXCEPT !.reconnecting = FALSE, !.retries = 0]
          /\ hist' = [ConnNote("open", NoEnv) EXCEPT !.delays = << >>]
     ELSE /\ UNCHANGED <<store, hook>>
          /\ hist' = ConnNote("open", NoEnv)
  /\ UNCHANGED now

\* handleSSEEvent for the next frame of an open transport.
Deliver(i) ==
  /\ i \in DOMAIN net.transports
  /\ net.transports[i].state = "open"
  /\ net.transports[i].pos <= Len(LogOf(net, net.transports[i].cl.runId))
  /\ LET run == net.transports[i].cl.runId
         frame == LogOf(net, run)[net.transports[i].pos]
         e == Stamped(frame)
         n1 == [net EXCEPT !.transports[i].pos = @ + 1]
         s1 == addEvent(store, e, now)
         seen == [ConnNote("frame", e) EXCEPT
                    !.highSeq[run] = Max(@, e.sequence), !.run = run]
     IN IF ~hook.mounted
        THEN /\ net' = n1
             /\ hist' = ConnNote("frame", e)
             /\ UNCHANGED <<store, hook>>
        ELSE IF ~frame.valid
        THEN /\ hook' = OnParseError(hook, n1, store).hook
             /\ net' = OnParseError(hook, n1, store).net
             /\ store' = OnParseError(hook, n1, store).store
             /\ hist' = ConnNote("badFrame", NoEnv)
        ELSE /\ hook' = [hook EXCEPT !.lastSequence = NextSequence(hook, e)]
             /\ IF IsHeartbeat(e)
                THEN /\ store' = noteHeartbeat(store, e.ts, now)
                     /\ net' = n1
                     /\ hist' = seen
                ELSE /\ store' = IF IsTerminal(e) THEN setConnected(s1, FALSE) ELSE s1
                     /\ net' = IF IsTerminal(e) THEN CloseTransport(n1, i) ELSE n1
                     /\ hist' = [seen EXCEPT
                                   !.admitted = Append(@, e),
                                   !.ended = IF e.kind \in {K_RUN_COMPLETED, K_RUN_FAILED}
                                             THEN @ \cup {run} ELSE @]
  /\ UNCHANGED now

\* eventSource.onerror
Error(i) ==
  /\ i \in DOMAIN net.transports
  /\ LET n1 == CloseTransport(net, i)
         retries == hook.retries + 1
         delay == ReconnectDelay(retries)
         timer == [id |-> net.nextTimer, delay |-> delay, cl |-> net.transports[i].cl]
     IN IF ~hook.mounted
        THEN /\ net' = n1
             /\ hist' = ConnNote("error", NoEnv)
             /\ UNCHANGED <<store, hook>>
        ELSE /\ store' = setConnected(store, FALSE)
             /\ IF MayRetry(hook, store)
                THEN /\ hook' = [hook EXCEPT !.retries = retries,
                                             !.reconnecting = TRUE,
                                             !.reconnectTimeoutRef = timer.id]
                     /\ net' = [n1 EXCEPT !.timers = @ \cup {timer},
                                          !.nextTimer = @ + 1]
                     /\ hist' = [ConnNote("error", NoEnv) EXCEPT
                                   !.delays = Append(@, delay)]
                ELSE /\ hook' = [hook EXCEPT
                                   !.reconnecting =
                                      IF hook.retries >= MAX_RECONNECT_ATTEMPTS
                                      THEN FALSE ELSE @]
                     /\ net' = n1
                     /\ hist' = ConnNote("error", NoEnv)
  /\ UNCHANGED now

\* The setTimeout callback: if (mountedRef.current) connect()
TimerFire(tm) ==
  /\ tm \in net.timers
  /\ net.nextId <= MaxTransports
  /\ LET n1 == ClearTimer(net, tm.id)
         c == connect(hook, n1, store, tm.cl)
     IN IF hook.mounted
        THEN /\ hook' = c.hook
             /\ net' = c.net
             /\ hist' = [ConnNote("timer", NoEnv) EXCEPT
                           !.resumed = @ \/ ConnectSince(store) # ""]
        ELSE /\ net' = n1
             /\ hist' = ConnNote("timer", NoEnv)
             /\ UNCHANGED hook
  /\ UNCHANGED <<now, store>>

\* The cleanup of the effect when the component unmounts.
Unmount ==
  /\ hook.mounted
  /\ LET d == disconnect([hook EXCEPT !.mounted = FALSE], net, store)
     IN /\ hook' = d.hook
        /\ net' = d.net
        /\ store' = d.store
  /\ hist' = [ConnNote("unmount", NoEnv) EXCEPT !.delays = << >>]
  /\ UNCHANGED now

NextConn ==
  \/ HandleSend
  \/ UseEffect
  \/ \E i \in 1..MaxTransports : Open(i)
  \/ \E i \in 1..MaxTransports : Deliver(i)
  \/ \E i \in 1..MaxTransports : Error(i)
  \/ \E tm \in net.timers : TimerFire(tm)
  \/ Unmount

SpecConn == Init /\ [][NextConn]_vars

(***************************************************************************)
(* Properties of the connector                                             *)
(***************************************************************************)
\* The upstream's envelopes as the connector stamps them, heartbeats left out.
Expected == SelectSeq([k \in 1..Len(Script) |-> Stamped(Script[k])],
                      LAMBDA e : e.kind # K_HEARTBEAT)

RunStart ==
  initializeAgents(setCurrentRunId(InitialStore, "r1"),
                   <<AgentInfo("A", TRUE), AgentInfo("B", FALSE)>>, "scenario")

RECURSIVE Uninterrupted(_)
\* The store after an uninterrupted delivery of the first n envelopes.
Uninterrupted(n) ==
  IF n = 0 THEN RunStart ELSE addEvent(Uninterrupted(n - 1), Expected[n], StartMs)

\* C4: whatever the points at which the transport failed and the connector
\* reconnected from its cursor, the envelopes applied so far are the first n
\* of the stream, each once and in order, and agents, dataSources,
\* recoveryOptions, recoveryPlan, the events buffer and overallPct are those
\* of an uninterrupted delivery of these n envelopes.
C4_ResumeContinuity ==
  store.currentRunId = "r1" =>
    LET n == Len(hist.admitted)
        u == Uninterrupted(n)
    IN /\ n <= Len(Expected)
       /\ hist.admitted = SubSeq(Expected, 1, n)
       /\ store.agents = u.agents
       /\ store.dataSources = u.dataSources
       /\ store.recoveryOptions = u.recoveryOptions
       /\ store.recoveryPlan = u.recoveryPlan
       /\ store.events = u.events
       /\ store.runProgress.overallPct = u.runProgress.overallPct

\* The whole stream was applied by a delivery that was interrupted and resumed
\* from a cursor.
C4_ResumedToTheEnd ==
  /\ hist.resumed
  /\ hist.admitted = Expected
  /\ store.runProgress.status = "completed"

\* C8: a heartbeat frame changes only lastHeartbeatAt, of the store and of
\* runProgress, and the events buffer never contains a heartbeat.
C8_HeartbeatOnlyNoted ==
  /\ [][(hist'.op = "frame" /\ hist'.env.kind = K_HEARTBEAT /\ hook.mounted) =>
          LET hb == IF hist'.env.ts # NoTs THEN hist'.env.ts ELSE now
          IN store' = [store EXCEPT !.lastHeartbeatAt = hb,
                                    !.runProgress.lastHeartbeatAt = hb]]_vars
  /\ [](\A k \in 1..Len(store.events) : store.events[k].kind # K_HEARTBEAT)

\* A heartbeat frame was received after envelopes had been admitted.
C8_HeartbeatReceived ==
  /\ hist.op = "frame"
  /\ hist.env.kind = K_HEARTBEAT
  /\ store.lastHeartbeatAt # NoTs
  /\ Len(store.events) > 0

TimerAdded == net'.timers # net.timers /\ net.timers \subseteq net'.timers

\* C9: a transport error closes the transport and schedules a reconnect
\* exactly when fewer than 10 reconnects have been scheduled since the last
\* open; the retry counter stays within 0..10 and, once 10 attempts have
\* failed, no timer is pending or scheduled until the effect connects again.
C9_BoundedReconnects ==
  /\ [](hook.retries \in 0..10)
  /\ []((hook.retries = 10 /\ hist.op = "error" /\ net.timers = {})
          => Len(hist.delays) = 10)
  /\ [][hist'.op = "error" =>
          /\ DOMAIN net'.transports \subseteq DOMAIN net.transports
          /\ DOMAIN net'.transports # DOMAIN net.transports
          /\ TimerAdded <=> (hook.mounted /\ Len(hist.delays) < 10)]_vars
  /\ [][TimerAdded => hist'.op = "error"]_vars

\* The eleventh consecutive failure: ten reconnects failed and none is pending.
C9_RetriesExhausted ==
  /\ hist.op = "error"
  /\ hook.retries = 10
  /\ Len(hist.delays) = 10
  /\ net.timers = {}
  /\ DOMAIN net.transports = {}

DelayTable == <<1000, 2000, 4000, 8000, 16000, 30000, 30000, 30000, 30000, 30000>>

\* C10: the delay of the k-th consecutive reconnect is min(1000 * 2^(k-1),
\* 30000) ms, that is 1000, 2000, 4000, 8000, 16000 and then 30000, and the
\* delays are non-decreasing between successful opens.
C10_BackoffDelays ==
  /\ Len(hist.delays) <= 10
  /\ \A k \in 1..Len(hist.delays) :
        /\ hist.delays[k] = DelayTable[k]
        /\ hist.delays[k] = (IF 1000 * 2 ^ (k - 1) < 30000
                             THEN 1000 * 2 ^ (k - 1) ELSE 30000)
        /\ k > 1 => hist.delays[k] >= hist.delays[k - 1]
  /\ \A tm \in net.timers : tm.delay = hist.delays[Len(hist.delays)]

\* Ten consecutive reconnects were scheduled, the last ones at the cap.
C10_CapReached ==
  /\ Len(hist.delays) = 10
  /\ hist.delays[5] = 16000
  /\ hist.delays[6] = 30000
  /\ net.timers # {}

(***************************************************************************)
(* The stream connector under its caller: the chat sidebar starts a second *)
(* run, the caller uses the disconnect() the hook returns, and the         *)
(* upstream holds one of several streams for the first run, among them     *)
(* streams with a frame that is not JSON, with stream ids and sequences    *)
(* out of order, with an envelope that carries no id, and with a failed    *)
(* run.  hist.highSeq is the highest sequence received so far for each     *)
(* run.                                                                    *)
(***************************************************************************)
ScriptFailed ==
  <<SseFrame(WithId(Env(K_AGENT_ACTIVATED, "A", StartMs, Pct(30)), "e1", "", 1), "1-0"),
    BadFrame(""),
    SseFrame(WithId(Env(K_PROGRESS_UPDATE, "A", StartMs, Pct(50)), "e2", "", 2), "2-0"),
    SseFrame(WithId(Env(K_RUN_FAILED, "", StartMs, Pct(80)), "e3", "", 3), "3-0")>>

ScriptUnordered ==
  <<SseFrame(WithId(Env(K_AGENT_ACTIVATED, "A", StartMs, Pct(30)), "e1", "", 2), "2-0"),
    SseFrame(WithId(Env(K_DATA_SOURCE_QUERY_START, "A", StartMs, [sourceType |-> "SQL"]),
                    "e2", "", 1), "1-0"),
    SseFrame(WithId(Env(K_PROGRESS_UPDATE, "A", StartMs, Pct(50)), "e3", "", 0), ""),
    SseFrame(WithId(Env(K_RUN_COMPLETED, "", StartMs, NoPayload), "e4", "", 3), "3-0")>>

HookScripts == {Script, ScriptFailed, ScriptUnordered}

InitHook ==
  /\ store = InitialStore
  /\ now = StartMs
  /\ hook = InitialHook
  /\ net \in {[InitialNet EXCEPT !.log = l] : l \in HookScripts}
  /\ hist = InitialHist

\* handleSend of the chat sidebar on a later message: the response carries the
\* run_id of a new run.
HandleSendAgain ==
  /\ hook.mounted
  /\ store.currentRunId = "r1"
  /\ store' = initializeAgents(setCurrentRunId(store, "r2"),
                               <<AgentInfo("A", TRUE), AgentInfo("B", FALSE)>>,
                               "scenario")
  /\ hist' = [ConnNote("handleSend", NoEnv) EXCEPT !.admitted = << >>]
  /\ UNCHANGED <<now, hook, net>>

\* The state of the connector as the caller sees it.
ConnState(n) ==
  IF \E i \in DOMAIN n.transports : n.transports[i].state = "open" THEN "connected"
  ELSE IF DOMAIN n.transports # {} THEN "connecting"
  ELSE IF n.timers # {} THEN "timer"
  ELSE "idle"

\* disconnect() as returned by the hook, called by the caller; hist.was is the
\* state it was called in.
Disconnect ==
  /\ LET d == disconnect(hook, net, store)
     IN /\ hook' = d.hook
        /\ net' = d.net
        /\ store' = d.store
  /\ hist' = [ConnNote("disconnect", NoEnv) EXCEPT !.delays = << >>,
                                                   !.was = ConnState(net)]
  /\ UNCHANGED now

NextHook ==
  \/ HandleSend
  \/ HandleSendAgain
  \/ UseEffect
  \/ \E i \in 1..MaxTransports : Open(i)
  \/ \E i \in 1..MaxTransports : Deliver(i)
  \/ \E i \in 1..MaxTransports : Error(i)
  \/ \E tm \in net.timers : TimerFire(tm)
  \/ Unmount
  \/ Disconnect

SpecHook == InitHook /\ [][NextHook]_vars

(***************************************************************************)
(* Properties of the connector under its caller                            *)
(***************************************************************************)
\* C11: a run_completed or run_failed envelope received by the mounted
\* connector is applied to the store, its transport is closed, isConnected
\* becomes false and no timer is scheduled; from then on no transport and no
\* reconnect timer exists for that run (hist.ended lists the runs whose
\* terminal envelope was received).
C11_TerminalClosesForGood ==
  /\ [][(hist'.op = "frame" /\ hook.mounted
          /\ hist'.env.kind \in {K_RUN_COMPLETED, K_RUN_FAILED}) =>
          /\ store' = setConnected(addEvent(store, hist'.env, now), FALSE)
          /\ store'.events[Len(store'.events)] = hist'.env
          /\ ~store'.isConnected
          /\ DOMAIN net'.transports = {}
          /\ net'.timers = {}
          /\ hook'.retries = hook.retries]_vars
  /\ [](/\ \A i \in DOMAIN net.transports : net.transports[i].cl.runId \notin hist.ended
        /\ \A tm \in net.timers : tm.cl.runId \notin hist.ended)

\* A run_failed envelope was received after a reconnect, and the connector is
\* closed and idle.
C11_FailedRunClosed ==
  /\ hist.op = "frame"
  /\ hist.env.kind = K_RUN_FAILED
  /\ "r1" \in hist.ended
  /\ hist.resumed
  /\ store.runProgress.status = "failed"
  /\ ~store.isConnected
  /\ DOMAIN net.transports = {}
  /\ net.timers = {}

StreamOrder == <<"1-0", "2-0", "3-0", "4-0", "5-0">>

StreamRank(id) == CHOOSE k \in 1..Len(StreamOrder) : StreamOrder[k] = id

\* The highest stream id among envelopes, "" if none carries one.
HighestStreamId(envs) ==
  LET ids == {envs[k].stream_id : k \in 1..Len(envs)} \cap Range(StreamOrder)
  IN IF ids = {} THEN ""
     ELSE CHOOSE x \in ids : \A y \in ids : StreamRank(y) <= StreamRank(x)

\* C13: the cursor a reconnect sends (since) is the highest stream id among
\* the envelopes received so far for the run.
C13_CursorIsHighestStreamId ==
  (hist.op = "timer" /\ store.currentRunId = "r1"
     /\ hook.eventSourceRef \in DOMAIN net.transports) =>
    net.transports[hook.eventSourceRef].since = HighestStreamId(hist.admitted)

\* C14: a parsed envelope that is not a heartbeat is admitted whatever its
\* sequence, and it is flagged out of order exactly when its sequence is
\* present and at most the highest sequence received before for the run of
\* its transport; the tracked sequence never decreases.
C14_OutOfOrderFlagPerRun ==
  /\ [][(hist'.op = "frame" /\ hook.mounted /\ hist'.env.kind # K_HEARTBEAT) =>
          /\ hist'.admitted = Append(hist.admitted, hist'.env)
          /\ store'.events[Len(store'.events)] = hist'.env
          /\ OutOfOrder(hook, hist'.env) <=>
               (hist'.env.sequence # 0
                  /\ hist'.env.sequence <= hist.highSeq[hist'.run])]_vars
  /\ [][hook'.lastSequence >= hook.lastSequence]_vars

(***************************************************************************)
(* Further properties of the store specification                           *)
(***************************************************************************)
\* Envelopes of a kind the reducer has no case for.
UnknownProbes ==
  {Env(K_UNKNOWN, "A", NoTs, NoPayload),
   Env(K_UNKNOWN, "A", NoTs, Pct(70)),
   Env(K_UNKNOWN, "B", NoTs, [currentStep |-> "custom_step"]),
   Env(K_UNKNOWN, "", NoTs, [agentId |-> "A", sourceType |-> "SQL", rank |-> 1])}

MaxScenarioLen == 4

RosterAB == <<AgentInfo("A", TRUE), AgentInfo("B", FALSE)>>

Scores(d, c, sf, co, p) ==
  [delay_reduction |-> d, crew_margin |-> c, safety_score |-> sf,
   cost_impact |-> co, passenger_impact |-> p]

ActivatedA == Env(K_AGENT_ACTIVATED, "A", StartMs, NoPayload)

QueryStartA == Env(K_DATA_SOURCE_QUERY_START, "A", StartMs, [sourceType |-> "SQL"])

QueryCompleteA ==
  Env(K_DATA_SOURCE_QUERY_COMPLETE, "A", StartMs,
      [sourceType |-> "SQL", latencyMs |-> 120, resultCount |-> 7])

SpanEndedA == Env(K_SPAN_ENDED, "A", StartMs, [success |-> TRUE])

OptionRank1 ==
  Env(K_RECOVERY_OPTION, "", StartMs,
      [optionId |-> "o1", description |-> "swap aircraft", rank |-> 1,
       scores |-> Scores(80, 60, 90, 50, 70)])

OptionRank2 ==
  Env(K_RECOVERY_OPTION, "", StartMs,
      [optionId |-> "o2", description |-> "delay departure", rank |-> 2,
       scores |-> Scores(40, 70, 80, 60, 50)])

CoordinatorPlan ==
  Env(K_COORDINATOR_PLAN, "", StartMs, [selectedOptionId |-> "o1", summary |-> "plan"])

\* Progress reports whose runProgressPct lies outside 0..100.
ProgressOver == Env(K_PROGRESS_UPDATE, "A", StartMs, Pct(150))

ProgressNegative == Env(K_PROGRESS_UPDATE, "A", StartMs, Pct(-5))

ScenarioEnvs ==
  {ActivatedA, QueryStartA, QueryCompleteA, SpanEndedA,
   OptionRank1, OptionRank2, CoordinatorPlan, ProgressOver, ProgressNegative}

ScenInitializeAgents(roster) ==
  /\ hist.op = "init"
  /\ store' = initializeAgents(store, roster, "hub_disruption")
  /\ hist' = [Note("initializeAgents", NoEnv) EXCEPT !.roster = roster]
  /\ UNCHANGED <<now, hook, net>>

ScenAddEvent(e) ==
  /\ Len(hist.admitted) < MaxScenarioLen
  /\ store' = addEvent(store, e, now)
  /\ hist' = [Note("addEvent", e) EXCEPT !.admitted = Append(@, e)]
  /\ UNCHANGED <<now, hook, net>>

NextScenario ==
  \/ \E roster \in Rosters : ScenInitializeAgents(roster)
  \/ \E e \in ScenarioEnvs : ScenAddEvent(e)

SpecScenario == Init /\ [][NextScenario]_vars

\* C16: from a store initialised with the roster [A included, B excluded],
\* agent.activated(A), data_source.query_start(A, SQL),
\* data_source.query_complete(A, SQL, latencyMs 120, resultCount 7) and
\* span.ended(A, success) end with A done, one evidence entry for A, SQL
\* queried once with an average latency of 120 ms and inactive, and B
\* excluded.
C16_QueryScenario ==
  (hist.roster = RosterAB
     /\ hist.admitted = <<ActivatedA, QueryStartA, QueryCompleteA, SpanEndedA>>) =>
    /\ store.agents["A"].status = "done"
    /\ Len(store.agents["A"].evidence) = 1
    /\ store.agents["A"].evidence[1].sourceType = "SQL"
    /\ store.agents["A"].evidence[1].resultCount = 7
    /\ store.dataSources["SQL"].queryCount = 1
    /\ store.dataSources["SQL"].avgLatencyMs = 120
    /\ store.dataSources["SQL"].isActive = FALSE
    /\ store.agents["B"].status = "excluded"

\* The four envelopes of the query scenario were admitted after the roster.
C16_QueryScenarioPlayed ==
  /\ hist.roster = RosterAB
  /\ hist.admitted = <<ActivatedA, QueryStartA, QueryCompleteA, SpanEndedA>>
  /\ hist.op = "addEvent"
  /\ store.agents["A"].traceCount > 0

\* [...options].sort((a, b) => a.rank - b.rank) of the recovery plan view
\* (components/av/header-bar.tsx): a stable sort by ascending rank.
InsertByRank(sorted, o) ==
  LET before == SelectSeq(sorted, LAMBDA x : x.rank <= o.rank)
      after == SelectSeq(sorted, LAMBDA x : x.rank > o.rank)
  IN before \o <<o>> \o after

RECURSIVE sortedOptions(_)
sortedOptions(options) ==
  IF options = << >> THEN << >>
  ELSE InsertByRank(sortedOptions(SubSeq(options, 1, Len(options) - 1)),
                    options[Len(options)])

OptionScenarios ==
  {<<OptionRank1, OptionRank2, CoordinatorPlan>>,
   <<OptionRank2, OptionRank1, CoordinatorPlan>>}

\* C17 as stated: two recovery.option envelopes, in either arrival order,
\* followed by coordinator.plan give a recoveryPlan with exactly 2 options in
\* ascending rank, each with its overall score.
C17_PlanOptionsByRank ==
  hist.admitted \in OptionScenarios =>
    /\ store.recoveryPlan # << >>
    /\ Len(store.recoveryPlan[1].options) = 2
    /\ store.recoveryPlan[1].options[1].rank < store.recoveryPlan[1].options[2].rank
    /\ \A k \in 1..2 : store.recoveryPlan[1].options[k].overallScore
                         \in {7300, 5950}

\* C17: two recovery.option envelopes, in either arrival order, followed by
\* coordinator.plan give a recoveryPlan with exactly 2 options in arrival
\* order, each with the weighted sum of its scores as overall score (in
\* hundredths: 7300 for o1, 5950 for o2); the plan view's sortedOptions are
\* in ascending rank.
C17_PlanOptionsInArrivalOrder ==
  hist.admitted \in OptionScenarios =>
    /\ store.recoveryPlan # << >>
    /\ LET options == store.recoveryPlan[1].options
           score(id) == IF id = "o1" THEN 7300 ELSE 5950
       IN /\ Len(options) = 2
          /\ \A k \in 1..2 :
                /\ options[k].optionId = hist.admitted[k].payload.optionId
                /\ options[k].rank = hist.admitted[k].payload.rank
                /\ options[k].overallScore = score(options[k].optionId)
          /\ Len(sortedOptions(options)) = 2
          /\ sortedOptions(options)[1].optionId = "o1"
          /\ sortedOptions(options)[2].optionId = "o2"
          /\ sortedOptions(options)[1].rank < sortedOptions(options)[2].rank

\* The option of rank 2 arrived before the option of rank 1, then the plan.
C17_HigherRankArrivedFirst ==
  /\ hist.admitted = <<OptionRank2, OptionRank1, CoordinatorPlan>>
  /\ store.recoveryPlan # << >>
  /\ store.recoveryPlan[1].options[1].optionId = "o2"

(***************************************************************************)
(* Further properties of the connector under its caller                    *)
(***************************************************************************)
\* C18: a frame whose data is not JSON changes neither the store nor the
\* connector (the transport stays as it is, no timer, no retry, same cursor
\* and sequence), and the frame after it on the same transport is handled as
\* any other: an envelope is admitted, a heartbeat noted.
C18_BadFrameDiscarded ==
  /\ [][hist'.op = "badFrame" =>
          /\ store' = store
          /\ hook' = hook
          /\ net'.timers = net.timers
          /\ DOMAIN net'.transports = DOMAIN net.transports
          /\ \A i \in DOMAIN net.transports :
                /\ net'.transports[i].state = net.transports[i].state
                /\ net'.transports[i].pos >= net.transports[i].pos
          /\ hist'.admitted = hist.admitted]_vars
  /\ [][(hist.op = "badFrame" /\ hist'.op = "frame" /\ hook.mounted
           /\ hist'.env.kind # K_HEARTBEAT) =>
          /\ hist'.admitted = Append(hist.admitted, hist'.env)
          /\ store'.events = SliceLast(Append(store.events, hist'.env), MAX_STORED_EVENTS)
          /\ store'.lastEventId = OrStr(hist'.env.stream_id, hist'.env.event_id)]_vars

\* On the first transport of the run, the envelope after the frame that is
\* not JSON was admitted.
C18_AdmittedAfterBadFrame ==
  /\ net.log = ScriptFailed
  /\ net.nextId = 2
  /\ hist.op = "frame"
  /\ hist.env.event_id = "e2"
  /\ Len(hist.admitted) = 2
  /\ store.isConnected
  /\ store.lastEventId = "2-0"

\* C19: a run_completed envelope sets overallPct to 100 and status to
\* completed; a run_failed envelope sets status to failed and leaves overallPct
\* at the value it had, whatever runProgressPct its payload carries.
C19_TerminalProgress ==
  [][(hist'.op = "frame" /\ hook.mounted) =>
       /\ hist'.env.kind = K_RUN_COMPLETED =>
            /\ store'.runProgress.overallPct = 100
            /\ store'.runProgress.status = "completed"
       /\ hist'.env.kind = K_RUN_FAILED =>
            /\ store'.runProgress.status = "failed"
            /\ store'.runProgress.overallPct = store.runProgress.overallPct]_vars

(***************************************************************************)
(* Further properties of the store driven by the envelopes of a run        *)
(***************************************************************************)
\* C20: runProgress.overallPct is within 0..100 in every reachable state,
\* whatever numeric runProgressPct the admitted envelopes carry.
C20_OverallPctWithinRange ==
  store.runProgress.overallPct \in 0..100

(***************************************************************************)
(* The store driven by the lifecycle envelopes of two agents: the roster   *)
(* is initialised on the fresh store or not at all, then envelopes are     *)
(* admitted in any order.                                                  *)
(***************************************************************************)
ActivatedB == Env(K_AGENT_ACTIVATED, "B", StartMs, NoPayload)

SpanStartedA == Env(K_SPAN_STARTED, "A", StartMs, NoPayload)

ExcludedA == Env(K_AGENT_EXCLUDED, "A", StartMs, NoPayload)

\* agent.progress reporting a percentComplete of 5.
AgentProgressLow == Env(K_AGENT_PROGRESS, "A", StartMs, [percentComplete |-> 5])

LifecycleEnvs ==
  {ActivatedA, ActivatedB, SpanStartedA, QueryStartA, QueryCompleteA, SpanEndedA,
   ExcludedA, AgentProgressLow, ProgressNegative}

NextLifecycle ==
  \/ \E roster \in Rosters : ScenInitializeAgents(roster)
  \/ \E e \in LifecycleEnvs : ScenAddEvent(e)

SpecLifecycle == Init /\ [][NextLifecycle]_vars

(***************************************************************************)
(* Properties of the agent lifecycle                                       *)
(***************************************************************************)
\* C21: once an agent's status is excluded, no admitted envelope changes it.
C21_ExcludedIsTerminal ==
  [][hist'.op = "addEvent" =>
       \A a \in DOMAIN store.agents :
          store.agents[a].status = "excluded" =>
            (a \in DOMAIN store'.agents /\ store'.agents[a].status = "excluded")]_vars

\* The lifecycle transitions of an agent's status.
LifecycleTransitions ==
  {<<"idle", "activated">>, <<"activated", "thinking">>, <<"idle", "thinking">>,
   <<"thinking", "querying">>, <<"querying", "thinking">>,
   <<"thinking", "done">>, <<"thinking", "error">>,
   <<"querying", "done">>, <<"querying", "error">>, <<"idle", "excluded">>}

\* C22: every change of an agent's status by an admitted envelope is one of
\* the lifecycle transitions (an agent the envelope creates starts from
\* idle); in particular a done or error agent never returns to thinking,
\* querying or activated.
C22_OnlyLifecycleTransitions ==
  [][hist'.op = "addEvent" =>
       \A a \in DOMAIN store'.agents :
          LET before == IF a \in DOMAIN store.agents THEN store.agents[a].status ELSE "idle"
              after == store'.agents[a].status
          IN before # after => <<before, after>> \in LifecycleTransitions]_vars

\* The status the case of a lifecycle kind gives the agent of the envelope.
LifecycleTarget(e) ==
  CASE e.kind = K_AGENT_ACTIVATED -> "activated"
    [] e.kind = K_AGENT_EXCLUDED -> "excluded"
    [] e.kind \in {K_SPAN_STARTED, K_AGENT_PROGRESS, K_AGENT_STREAMING,
                   K_DATA_SOURCE_QUERY_COMPLETE, K_EXECUTOR_INVOKED} -> "thinking"
    [] e.kind = K_DATA_SOURCE_QUERY_START -> "querying"
    [] e.kind \in {K_SPAN_ENDED, K_AGENT_COMPLETED, K_EXECUTOR_COMPLETED} ->
         IF Has(e.payload, "success") /\ e.payload.success = FALSE THEN "error" ELSE "done"
    [] OTHER -> ""

\* C23: a lifecycle envelope that names an agent the registry does not hold
\* creates the agent and applies its transition.
C23_UnknownAgentCreated ==
  [][(hist'.op = "addEvent" /\ LifecycleTarget(hist'.env) # ""
        /\ AgentIdOf(hist'.env) # "" /\ AgentIdOf(hist'.env) \notin DOMAIN store.agents) =>
       /\ AgentIdOf(hist'.env) \in DOMAIN store'.agents
       /\ store'.agents[AgentIdOf(hist'.env)].status = LifecycleTarget(hist'.env)
       /\ store'.agents[AgentIdOf(hist'.env)].traceCount = 1]_vars

(***************************************************************************)
(* Properties of the store specification: trace counts                     *)
(***************************************************************************)
\* The agents of the registry whose traceCount the reducer case of an
\* envelope increments.
TraceTargets(s, e) ==
  (IF e.kind \in AgentCaseKinds THEN {AgentIdOf(e)}
   ELSE IF e.kind = K_HANDOVER /\ payloadString(e.payload, "fromAgent", "") # ""
              /\ payloadString(e.payload, "toAgent", "") # ""
        THEN {e.payload.fromAgent, e.payload.toAgent}
   ELSE IF e.kind = K_WORKFLOW_STATUS
        THEN {payloadString(e.payload, "executor_id", "")}
   ELSE {}) \cap DOMAIN s.agents

C25_PercentCompleteMonotone ==
  [][hist'.op = "addEvent" =>
       \A a \in DOMAIN store.agents :
          (a \in DOMAIN store'.agents
             /\ store'.agents[a].status \in {"activated", "thinking", "querying"})
          => store'.agents[a].percentComplete >= store.agents[a].percentComplete]_vars

(***************************************************************************)
(* Tool calls of one agent                                                 *)
(***************************************************************************)
ToolCalledT1 ==
  Env(K_TOOL_CALLED, "A", StartMs, [toolId |-> "t1", toolName |-> "lookup"])

ToolCalledAnon == Env(K_TOOL_CALLED, "A", StartMs, [toolName |-> "lookup"])

ToolCalledFetch == Env(K_TOOL_CALLED_LEGACY, "A", StartMs, [toolName |-> "fetch"])

ToolCompletedT1 ==
  Env(K_TOOL_COMPLETED, "A", StartMs,
      [toolId |-> "t1", toolName |-> "lookup", latencyMs |-> 7])

ToolCompletedT9 ==
  Env(K_TOOL_COMPLETED_LEGACY, "A", StartMs, [toolId |-> "t9", toolName |-> "lookup"])

ToolFailedLookup == Env(K_TOOL_FAILED, "A", StartMs, [toolName |-> "lookup"])

ToolCompletedFetch == Env(K_TOOL_COMPLETED, "A", StartMs, [toolName |-> "fetch"])

ToolFailedB == Env(K_TOOL_FAILED_LEGACY, "B", StartMs, [toolName |-> "lookup"])

ToolEnvs ==
  {ToolCalledT1, ToolCalledAnon, ToolCalledFetch, ToolCompletedT1,
   ToolCompletedT9, ToolFailedLookup, ToolCompletedFetch, ToolFailedB}

NextTools ==
  \/ \E roster \in Rosters : ScenInitializeAgents(roster)
  \/ \E e \in ToolEnvs : ScenAddEvent(e)

SpecTools == Init /\ [][NextTools]_vars

ToolFinishedKinds ==
  {K_TOOL_COMPLETED, K_TOOL_COMPLETED_LEGACY, K_TOOL_FAILED, K_TOOL_FAILED_LEGACY}

\* The entry a completed/failed envelope is meant for: the one whose id is
\* payload.toolId when a toolId is supplied, otherwise the most recently
\* inserted running entry of the same toolName; 0 when there is none.
MeantEntry(calls, e) ==
  LET named == {i \in 1..Len(calls) :
                  IF Has(e.payload, "toolId")
                  THEN calls[i].id = [given |-> e.payload.toolId, synth |-> 0]
                       /\ \A j \in 1..(i - 1) :
                             calls[j].id # [given |-> e.payload.toolId, synth |-> 0]
                  ELSE calls[i].status = "running"
                       /\ calls[i].toolName = ToolNameOf(e)
                       /\ \A j \in (i + 1)..Len(calls) :
                             ~(calls[j].status = "running"
                                 /\ calls[j].toolName = ToolNameOf(e))}
  IN IF named = {} THEN 0 ELSE CHOOSE i \in named : TRUE

\* C26: a tool completed/failed envelope leaves the length of the agent's
\* tool-call list unchanged, changes no entry other than the one it is meant
\* for (by toolId when supplied, else the latest running entry of that
\* toolName), marks that entry done or error in place, and changes nothing in
\* the list when no entry matches; other agents' lists are untouched.
C26_ToolFinishedUpdatesOneEntry ==
  [][(hist'.op = "addEvent" /\ hist'.env.kind \in ToolFinishedKinds) =>
       \A a \in DOMAIN store.agents :
          LET old == store.agents[a].toolCalls
              new == store'.agents[a].toolCalls
              k == IF a = AgentIdOf(hist'.env) THEN MeantEntry(old, hist'.env) ELSE 0
          IN /\ Len(new) = Len(old)
             /\ \A i \in 1..Len(old) : i # k => new[i] = old[i]
             /\ k >= 1 =>
                  /\ new[k].status =
                       (IF hist'.env.kind \in {K_TOOL_FAILED, K_TOOL_FAILED_LEGACY}
                        THEN "error" ELSE "done")
                  /\ new[k].id = old[k].id
                  /\ new[k].toolName = old[k].toolName
                  /\ new[k].endedAt = hist'.env.ts]_vars

\* A failure without toolId arrived while two lookup calls were running: the
\* later one was marked, the earlier one is still running.
C26_LatestRunningMarked ==
  /\ hist.op = "addEvent"
  /\ hist.env = ToolFailedLookup
  /\ KnownAgent(store, "A")
  /\ Len(store.agents["A"].toolCalls) = 2
  /\ store.agents["A"].toolCalls[1].status = "running"
  /\ store.agents["A"].toolCalls[1].toolName = "lookup"
  /\ store.agents["A"].toolCalls[2].status = "error"
  /\ store.agents["A"].toolCalls[2].toolName = "lookup"

\* C27: every data_source.query_start naming a registered source type sets
\* that source's isActive to TRUE, every data_source.query_complete for it
\* sets isActive to FALSE and adds exactly 1 to queryCount, and envelopes of
\* every other kind leave all data-source stats unchanged.
C27_QueryEnvelopesDriveSourceStats ==
  [][hist'.op = "addEvent" =>
       LET e == hist'.env
           sourceType == payloadString(e.payload, "sourceType", "")
           registered == sourceType \in DOMAIN store.dataSources
       IN /\ (e.kind = K_DATA_SOURCE_QUERY_START /\ registered)
               => store'.dataSources[sourceType].isActive
          /\ (e.kind = K_DATA_SOURCE_QUERY_COMPLETE /\ registered)
               => /\ ~store'.dataSources[sourceType].isActive
                  /\ store'.dataSources[sourceType].queryCount =
                       store.dataSources[sourceType].queryCount + 1
          /\ e.kind \notin {K_DATA_SOURCE_QUERY_START, K_DATA_SOURCE_QUERY_COMPLETE}
               => store'.dataSources = store.dataSources]_vars

(***************************************************************************)
(* Query statistics of the data sources                                    *)
(***************************************************************************)
MaxQueries == 24

FreeQueries == 3

Latencies == {0, 1, 2}

QueryComplete(sourceType, latencyMs) ==
  Env(K_DATA_SOURCE_QUERY_COMPLETE, "A", StartMs,
      [sourceType |-> sourceType, latencyMs |-> latencyMs])

\* The first FreeQueries completions choose their source and latency freely;
\* the later ones all hit SQL with a latency that tells them apart.
SrcQueryComplete(sourceType, latencyMs) ==
  /\ Len(hist.admitted) < MaxQueries
  /\ Len(hist.admitted) < FreeQueries => latencyMs \in Latencies
  /\ Len(hist.admitted) >= FreeQueries
       => (sourceType = "SQL" /\ latencyMs = Len(hist.admitted))
  /\ store' = addEvent(store, QueryComplete(sourceType, latencyMs), now)
  /\ hist' = [Note("addEvent", QueryComplete(sourceType, latencyMs))
                EXCEPT !.admitted = Append(@, QueryComplete(sourceType, latencyMs))]
  /\ UNCHANGED <<now, hook, net>>

NextSource ==
  \E sourceType \in {"SQL", "KQL"} :
     \E latencyMs \in Latencies \cup (FreeQueries..MaxQueries) :
        SrcQueryComplete(sourceType, latencyMs)

SpecSource == Init /\ [][NextSource]_vars

\* The latencies recorded for a source so far, in arrival order.
RecordedLatencies(sourceType) ==
  LET mine == SelectSeq(hist.admitted,
                        LAMBDA e : e.kind = K_DATA_SOURCE_QUERY_COMPLETE
                                     /\ Has(e.payload, "sourceType")
                                     /\ e.payload.sourceType = sourceType)
  IN [i \in 1..Len(mine) |-> mine[i].payload.latencyMs]

RECURSIVE SumOf(_)
SumOf(seq) == IF seq = << >> THEN 0 ELSE Head(seq) + SumOf(Tail(seq))

\* Every prefix of the sequence has an integer mean.
IntegerMeans(seq) ==
  \A k \in 1..Len(seq) : SumOf(SubSeq(seq, 1, k)) % k = 0

\* C28 as stated: each query_complete with latency L replaces the stored
\* average a over n queries by exactly (a*n + L)/(n+1), and the stored
\* average is the mean of all latencies recorded for the source.
C28_AverageIsExactMean ==
  \A src \in DOMAIN store.dataSources :
     store.dataSources[src].avgLatencyMs * store.dataSources[src].queryCount
       = SumOf(RecordedLatencies(src))

\* What the reducer does guarantee: each completion replaces the stored
\* average a over n queries by (a*n + L)/(n+1) rounded to the nearest integer
\* (halves up), and the stored average is the mean of the recorded latencies
\* as long as the mean after each completion was an integer.
AverageIsRoundedRunningMean ==
  /\ [][(hist'.op = "addEvent" /\ hist'.env.kind = K_DATA_SOURCE_QUERY_COMPLETE) =>
          LET src == hist'.env.payload.sourceType
              a == store.dataSources[src].avgLatencyMs
              n == store.dataSources[src].queryCount
              q == a * n + hist'.env.payload.latencyMs
              new == store'.dataSources[src].avgLatencyMs
          IN /\ 2 * new * (n + 1) <= 2 * q + (n + 1)
             /\ 2 * q + (n + 1) < 2 * (new + 1) * (n + 1)]_vars
  /\ [](\A src \in DOMAIN store.dataSources :
          IntegerMeans(RecordedLatencies(src)) =>
             store.dataSources[src].avgLatencyMs * store.dataSources[src].queryCount
               = SumOf(RecordedLatencies(src)))

\* Three completions on SQL with latencies 0, 1, 0: the stored average is 1
\* although the mean is 1/3.
RoundingDrift ==
  /\ RecordedLatencies("SQL") = <<0, 1, 0>>
  /\ store.dataSources["SQL"].queryCount = 3
  /\ store.dataSources["SQL"].avgLatencyMs = 1

\* C29: in every reachable state every data source's sparkline holds at most
\* 20 latencies, and they are the latest recorded latencies of that source in
\* arrival order.
C29_SparklineKeepsLatestTwenty ==
  \A src \in DOMAIN store.dataSources :
     LET lats == RecordedLatencies(src)
         line == store.dataSources[src].sparkline
     IN /\ Len(line) <= 20
        /\ Len(line) = Min(Len(lats), 20)
        /\ \A i \in 1..Len(line) : line[i] = lats[Len(lats) - Len(line) + i]

\* A 21st latency arrived on SQL and the oldest one left the sparkline.
C29_OldestEvicted ==
  /\ Len(RecordedLatencies("SQL")) >= 21
  /\ Len(store.dataSources["SQL"].sparkline) = 20
  /\ store.dataSources["SQL"].sparkline[1] = RecordedLatencies("SQL")[Len(RecordedLatencies("SQL")) - 19]
  /\ store.dataSources["SQL"].sparkline[20] = hist.env.payload.latencyMs

\* C30: whatever the order of the recovery.option envelopes and the
\* coordinator.plan envelope, once a plan exists recoveryPlan.options contains
\* every option accumulated in recoveryOptions; and a coordinator.plan that
\* arrives when options have been accumulated takes exactly those, not the
\* inline payload options.
C30_PlanHoldsEveryOption ==
  /\ [](store.recoveryPlan # << >> =>
          \A i \in 1..Len(store.recoveryOptions) :
             \E j \in 1..Len(store.recoveryPlan[1].options) :
                store.recoveryPlan[1].options[j] = store.recoveryOptions[i])
  /\ [][(hist'.op = "addEvent" /\ hist'.env.kind = K_COORDINATOR_PLAN
           /\ store.recoveryOptions # << >>)
          => store'.recoveryPlan[1].options = store.recoveryOptions]_vars

\* C31: in every reachable state optionId is unique within recoveryOptions
\* and within recoveryPlan.options, also after a recovery.option envelope has
\* been delivered again.
C31_OptionIdUnique ==
  LET Unique(options) ==
        \A i, j \in 1..Len(options) :
           options[i].optionId = options[j].optionId => i = j
  IN /\ Unique(store.recoveryOptions)
     /\ store.recoveryPlan # << >> => Unique(store.recoveryPlan[1].options)

(***************************************************************************)
(* Handovers between agents                                                *)
(***************************************************************************)
HandoverAB ==
  Env(K_HANDOVER, "A", StartMs, [fromAgent |-> "A", toAgent |-> "B", reason |-> "crew"])

HandoverNoTarget == Env(K_HANDOVER, "A", StartMs, [fromAgent |-> "A"])

HandoverEnvs == {ActivatedA, SpanStartedA, ExcludedA, HandoverAB, HandoverNoTarget}

NextHandover ==
  \/ \E roster \in Rosters : ScenInitializeAgents(roster)
  \/ \E e \in HandoverEnvs : ScenAddEvent(e)

SpecHandover == Init /\ [][NextHandover]_vars

\* C32: a handover envelope that names fromAgent and toAgent appends exactly
\* one edge, animated and directed from fromAgent to toAgent, both of which
\* are agents of the registry, and leaves the status of every agent unchanged.
C32_HandoverLinksExistingAgents ==
  [][(hist'.op = "addEvent" /\ hist'.env.kind = K_HANDOVER
        /\ payloadString(hist'.env.payload, "fromAgent", "") # ""
        /\ payloadString(hist'.env.payload, "toAgent", "") # "") =>
       /\ Len(store'.agentEdges) = Len(store.agentEdges) + 1
       /\ SubSeq(store'.agentEdges, 1, Len(store.agentEdges)) = store.agentEdges
       /\ LET edge == store'.agentEdges[Len(store'.agentEdges)]
          IN /\ edge.animated
             /\ edge.source = hist'.env.payload.fromAgent
             /\ edge.target = hist'.env.payload.toAgent
             /\ edge.source \in DOMAIN store'.agents
             /\ edge.target \in DOMAIN store'.agents
       /\ DOMAIN store'.agents = DOMAIN store.agents
       /\ \A a \in DOMAIN store.agents :
             store'.agents[a].status = store.agents[a].status]_vars

(***************************************************************************)
(* The store over two consecutive runs: envelopes, clearEvents (the header *)
(* bar's button), setCurrentRunId and initializeAgents (handleSend).       *)
(* hist.admitted holds the envelopes admitted since the registry was last  *)
(* replaced, hist.run the run id last given to setCurrentRunId.            *)
(***************************************************************************)
MaxRunSteps == 4

RunStarted == Env(K_RUN_STARTED, "", StartMs, NoPayload)

RunCompleted == Env(K_RUN_COMPLETED, "", StartMs, NoPayload)

SpanEndedFailedA == Env(K_SPAN_ENDED, "A", StartMs, [success |-> FALSE])

ProgressHalf == Env(K_PROGRESS_UPDATE, "", StartMs, Pct(50))

RunEnvs ==
  {ActivatedA, ActivatedB, SpanEndedA, SpanEndedFailedA, RunStarted,
   RunCompleted, ProgressHalf}

RunBudget == hist.steps < MaxRunSteps

RunAddEvent(e) ==
  /\ RunBudget
  /\ store' = addEvent(store, e, now)
  /\ hist' = [Note("addEvent", e) EXCEPT !.admitted = Append(@, e)]
  /\ UNCHANGED <<now, hook, net>>

RunClearEvents ==
  /\ RunBudget
  /\ store' = clearEvents(store)
  /\ hist' = [Note("clearEvents", NoEnv) EXCEPT !.admitted = << >>]
  /\ UNCHANGED <<now, hook, net>>

RunSetCurrentRunId(runId) ==
  /\ RunBudget
  /\ store' = setCurrentRunId(store, runId)
  /\ hist' = [Note("setCurrentRunId", NoEnv) EXCEPT !.run = runId]
  /\ UNCHANGED <<now, hook, net>>

RunInitializeAgents(roster) ==
  /\ RunBudget
  /\ store' = initializeAgents(store, roster, "hub_disruption")
  /\ hist' = [Note("initializeAgents", NoEnv) EXCEPT !.admitted = << >>,
                                                     !.roster = roster]
  /\ UNCHANGED <<now, hook, net>>

NextRuns ==
  \/ \E e \in RunEnvs : RunAddEvent(e)
  \/ RunClearEvents
  \/ \E runId \in {"r1", "r2"} : RunSetCurrentRunId(runId)
  \/ \E roster \in Rosters : RunInitializeAgents(roster)

SpecRuns == Init /\ [][NextRuns]_vars

\* The fields of runProgress the reset is about, at their defaults.
AtDefaults(p) ==
  /\ p.status = "pending"
  /\ p.overallPct = 0
  /\ p.agentsTotal = 0 /\ p.agentsActivated = 0 /\ p.agentsRunning = 0
  /\ p.agentsDone = 0 /\ p.agentsErrored = 0
  /\ ~p.isStale

\* C33: runProgress is back at its defaults (status pending, overallPct 0,
\* all agent counters 0, isStale false) after clearEvents and after
\* setCurrentRunId with a new run id while the previous run's progress is
\* still stored.
C33_ProgressResetOnNewRun ==
  [][/\ hist'.op = "clearEvents" => AtDefaults(store'.runProgress)
     /\ (hist'.op = "setCurrentRunId" /\ store.currentRunId # ""
           /\ hist'.run # store.currentRunId)
          => AtDefaults(store'.runProgress)]_vars

\* C34: between two clearEvents no envelope and no other store action removes
\* an agent id from the registry, agents created from an event before the
\* roster was installed included.
C34_AgentNeverRemoved ==
  [][hist'.op # "clearEvents" => DOMAIN store.agents \subseteq DOMAIN store'.agents]_vars

(***************************************************************************)
(* The staleness poll between the envelopes of a run with agents, data     *)
(* sources and recovery options                                            *)
(***************************************************************************)
MaxPollSteps == 5

PollEnvs == {ActivatedA, QueryStartA, OptionRank1, CoordinatorPlan}

PollBudget == hist.steps < MaxPollSteps

PollAddEvent(e) ==
  /\ PollBudget
  /\ store' = addEvent(store, e, now)
  /\ hist' = Note("addEvent", e)
  /\ UNCHANGED <<now, hook, net>>

\* eventSource.onopen as the store sees it.
PollSetConnected ==
  /\ PollBudget
  /\ ~store.isConnected
  /\ store' = setConnected(store, TRUE)
  /\ hist' = Note("setConnected", NoEnv)
  /\ UNCHANGED <<now, hook, net>>

\* Time passes by a little more than the staleness threshold.
PollTick ==
  /\ PollBudget
  /\ now + STALE_AFTER_MS + 1000 <= StartMs + MaxElapsedMs
  /\ now' = now + STALE_AFTER_MS + 1000
  /\ hist' = Note("tick", NoEnv)
  /\ UNCHANGED <<store, hook, net>>

\* The interval callback: evaluateStaleness(Date.now()).
PollEvaluate ==
  /\ PollBudget
  /\ store' = evaluateStaleness(store, now)
  /\ hist' = Note("poll", NoEnv)
  /\ UNCHANGED <<now, hook, net>>

NextPoll ==
  \/ \E roster \in Rosters : ScenInitializeAgents(roster)
  \/ \E e \in PollEnvs : PollAddEvent(e)
  \/ PollSetConnected
  \/ PollTick
  \/ PollEvaluate

SpecPoll == Init /\ [][NextPoll]_vars

\* C35: the staleness poll, wherever it falls between envelope applications,
\* changes nothing but noUpdateWarning and runProgress.isStale: agents,
\* dataSources, recoveryPlan, recoveryOptions, events, lastEventId and every
\* other field of runProgress and of the store stay as they were.
C35_PollWritesOnlyItsFlags ==
  [][hist'.op = "poll" =>
       store' = [store EXCEPT
                   !.noUpdateWarning = store'.noUpdateWarning,
                   !.runProgress = [store.runProgress EXCEPT
                                      !.isStale = store'.runProgress.isStale]]]_vars

\* A poll raised the stale flag in a store that holds agents, an active data
\* source or recovery options, and buffered envelopes.
C35_PollRaisedFlagMidRun ==
  /\ hist.op = "poll"
  /\ store.runProgress.isStale
  /\ store.noUpdateWarning
  /\ DOMAIN store.agents # {}
  /\ store.events # << >>

(***************************************************************************)
(* The connector with the reconnect() it returns to its caller             *)
(***************************************************************************)
MaxReconnectCalls == 1

MaxReconnectTransports == 3

\* reconnect: connect, called by the caller with the closure of the latest
\* render; hist.steps counts the calls.
Reconnect ==
  /\ hist.steps < MaxReconnectCalls
  /\ net.nextId <= MaxReconnectTransports
  /\ LET c == connect(hook, net, store, Props(store))
     IN /\ hook' = c.hook
        /\ net' = c.net
  /\ hist' = [ConnNote("reconnect", NoEnv) EXCEPT !.steps = @ + 1]
  /\ UNCHANGED <<now, store>>

\* The connector's actions, with at most MaxReconnectTransports transports
\* created in all.
NextReconnect ==
  \/ HandleSend
  \/ net.nextId <= MaxReconnectTransports /\ UseEffect
  \/ \E i \in 1..MaxReconnectTransports : Open(i)
  \/ \E i \in 1..MaxReconnectTransports : Deliver(i)
  \/ \E i \in 1..MaxReconnectTransports : Error(i)
  \/ \E tm \in net.timers : (net.nextId <= MaxReconnectTransports /\ TimerFire(tm))
  \/ Unmount
  \/ Disconnect
  \/ Reconnect

SpecReconnect == Init /\ [][NextReconnect]_vars

\* C36: under every interleaving of connect, reconnect-timer firing, transport
\* error, terminal envelope, disconnect and the exposed reconnect() call, the
\* connector has at most one transport that has not been closed.
C36_AtMostOneTransport == Cardinality(DOMAIN net.transports) <= 1

\* C37: the first connection the effect opens for a run id carries no since
\* cursor: the cursor left by the envelopes of an earlier run is not sent.
C37_CursorScopedToRun ==
  [][hist'.op = "useEffect" =>
       \A i \in (DOMAIN net'.transports) \ (DOMAIN net.transports) :
          net'.transports[i].since = ""]_vars

\* C38: once runProgress.status is completed or failed, no admitted envelope
\* changes the status or lowers overallPct.
C38_TerminalStatusSticky ==
  [][(hist'.op = "addEvent" /\ store.runProgress.status \in {"completed", "failed"}) =>
       /\ store'.runProgress.status = store.runProgress.status
       /\ store'.runProgress.overallPct >= store.runProgress.overallPct]_vars

\* The agent ids that received an agent.activated envelope since the registry
\* was last replaced.
ActivatedSinceReset ==
  {AgentIdOf(hist.admitted[i]) :
     i \in {j \in 1..Len(hist.admitted) : hist.admitted[j].kind = K_AGENT_ACTIVATED}}

\* C39: runProgress.agentsActivated never exceeds the number of distinct agent
\* ids activated since the last reset, repeated deliveries of an activation
\* included, and no agent id is in both completedAgentIds and failedAgentIds.
C39_CountersMatchAgents ==
  /\ store.runProgress.agentsActivated <= Cardinality(ActivatedSinceReset)
  /\ Range(store.completedAgentIds) \cap Range(store.failedAgentIds) = {}

(***************************************************************************)
(* The stale flags under every store action that touches them              *)
(***************************************************************************)
MaxFlagSteps == 5

FlagEnvs == {ProgressHalf, RunCompleted}

FlagBudget == hist.steps < MaxFlagSteps

FlagAddEvent(e) ==
  /\ FlagBudget
  /\ store' = addEvent(store, e, now)
  /\ hist' = Note("addEvent", e)
  /\ UNCHANGED <<now, hook, net>>

\* eventSource.onopen / onerror as the store sees them.
FlagSetConnected(connected) ==
  /\ FlagBudget
  /\ store' = setConnected(store, connected)
  /\ hist' = Note("setConnected", NoEnv)
  /\ UNCHANGED <<now, hook, net>>

FlagEvaluateStaleness ==
  /\ FlagBudget
  /\ store' = evaluateStaleness(store, now)
  /\ hist' = Note("poll", NoEnv)
  /\ UNCHANGED <<now, hook, net>>

FlagNoteHeartbeat ==
  /\ FlagBudget
  /\ store' = noteHeartbeat(store, NoTs, now)
  /\ hist' = Note("noteHeartbeat", NoEnv)
  /\ UNCHANGED <<now, hook, net>>

\* setCurrentRunId(data.run_id): the callers pass a run id, never null.
FlagSetCurrentRunId ==
  /\ FlagBudget
  /\ store' = setCurrentRunId(store, "r1")
  /\ hist' = Note("setCurrentRunId", NoEnv)
  /\ UNCHANGED <<now, hook, net>>

FlagClearEvents ==
  /\ FlagBudget
  /\ store' = clearEvents(store)
  /\ hist' = Note("clearEvents", NoEnv)
  /\ UNCHANGED <<now, hook, net>>

NextFlags ==
  \/ \E e \in FlagEnvs : FlagAddEvent(e)
  \/ \E connected \in BOOLEAN : FlagSetConnected(connected)
  \/ FlagEvaluateStaleness
  \/ FlagNoteHeartbeat
  \/ FlagSetCurrentRunId
  \/ FlagClearEvents
  \/ PollTick

SpecFlags == Init /\ [][NextFlags]_vars

====
